---- MODULE Spec2Model ----
(***************************************************************************)
(* Quiz session and exam-assembly engine of streamlit_app_mongo.py:        *)
(* balanced allocation, persisted exam sessions, practice pools and the    *)
(* CSV importer, each as a state machine over the Record Store.            *)
(***************************************************************************)
EXTENDS Integers, Sequences, FiniteSets, TLC

VARIABLES
    questionarios,  \* db.questionarios: _id -> document
    questoes,       \* db.questoes: _id -> document
    simulados,      \* db.simulados: _id -> document
    respostas,      \* db.respostas: the answer events, in insertion order
    oid,            \* ObjectIds handed out so far, per collection
    ss,             \* st.session_state of the user's browser session
    run,            \* position inside a script run that is split in steps
    bal,            \* locals of get_balanced_random_questoes_por_questionario
    sq,             \* streamlit_app.py (SQLite): its respostas table and session
    peer            \* st.session_state of a second browser session, and whose turn it is

storeVars == <<questionarios, questoes, simulados, respostas, oid>>

examVars == <<questionarios, questoes, simulados, respostas, oid, ss, run, sq, peer>>

vars == <<questionarios, questoes, simulados, respostas, oid, ss, run, bal, sq, peer>>

(***************************************************************************)
(* Generic helpers                                                         *)
(***************************************************************************)
Min(a, b) == IF a <= b THEN a ELSE b

Max(a, b) == IF a >= b THEN a ELSE b

RECURSIVE SumOver(_, _)
\* sum(f[x] for x in S), Python's sum(d.values()) over the keys S
SumOver(f, S) ==
    IF S = {} THEN 0
    ELSE LET x == CHOOSE y \in S : TRUE IN f[x] + SumOver(f, S \ {x})

Range(s) == {s[j] : j \in DOMAIN s}


\* the function f with key k bound to v (dict assignment)
Put(f, k, v) == [x \in DOMAIN f \cup {k} |-> IF x = k THEN v ELSE f[x]]

\* the function f without the keys in K (del / delete_many)
Drop(f, K) == [x \in DOMAIN f \ K |-> f[x]]

\* the empty mapping
Empty == <<>>

(***************************************************************************)
(* Record Store and browser session                                        *)
(***************************************************************************)
StoreEmpty ==
    /\ questionarios = Empty
    /\ questoes = Empty
    /\ simulados = Empty
    /\ respostas = <<>>
    /\ oid = [questionarios |-> 0, questoes |-> 0, simulados |-> 0]

\* "no id": session_state.get("current_simulado_id") is None
NoId == 0

\* a browser session that has run nothing yet
SessionNew ==
    [current_simulado_id |-> NoId,
     mode |-> "none",
     rerun |-> FALSE,
     result_sim |-> Empty,   \* answered_sim_/result_sim_ keys, by (exam, question)
     radio_sim |-> Empty,    \* vf_sim_/mc_sim_ keys, by (exam, question)
     current_qid |-> NoId,
     pool |-> Empty,         \* pool_{qid} keys, by questionnaire
     idx |-> Empty,          \* idx_{qid} keys, by questionnaire
     answered |-> Empty,     \* answered_/result_ keys, by question
     vf |-> Empty,           \* vf_{id} keys (practice radio), by question
     answer_letter |-> Empty] \* answer_letter_{id} keys, by question

\* reset_qid: the questionnaire whose resolutions were reset and that has
\* not been entered in practice since (history of the last reset)
RunIdle == [pc |-> "idle", reset_qid |-> NoId]

\* streamlit_app.py before anything was answered or started: the respostas
\* table is empty and the session holds no simulado_* key (their .get
\* defaults are [] and 0)
SqIdle ==
    [respostas |-> <<>>,
     mode |-> "none",
     rerun |-> FALSE,
     simulado_pool |-> <<>>,
     simulado_idx |-> 0,
     simulado_acertos |-> 0,
     result_sim |-> Empty,   \* answered_sim_/result_sim_ keys, by question
     radio_sim |-> Empty,    \* vf_sim_/mc_sim_ keys, by question
     current_qid |-> NoId,
     pool |-> Empty,         \* pool_{qid} keys, by questionnaire
     result |-> Empty,       \* answered_/result_ keys, by question
     radio |-> Empty]        \* vf_/mc_ keys, by question

\* the second browser session has run nothing; session 1 is the one in ss
PeerIdle == [turn |-> 1, ss |-> SessionNew]

(***************************************************************************)
(* Balanced allocation: get_balanced_random_questoes_por_questionario      *)
(***************************************************************************)
\* Bounds of the allocation inputs
MaxQs == 3

MaxCount == 3

MaxN == 5

\* the safety cap on loop iterations ("if i > 100000: break")
IterCap == 100000

\* questionario_ids is a list of k distinct ids, here 1..k in list order
AllocInputs ==
    { [k |-> k, counts |-> c, n |-> m] :
        k \in {0}, c \in {<<>>}, m \in 1..MaxN }
    \cup
    UNION { { [k |-> k, counts |-> c, n |-> m] :
                c \in [1..k -> 0..MaxCount], m \in 0..MaxN } : k \in 1..MaxQs }

\* Inputs large enough for the remainder loop to run into the cap: one
\* questionnaire with a single question, one with 2*IterCap + 2 of them
HugeInputs ==
    { [k |-> 2, counts |-> <<1, 2 * IterCap + 2>>, n |-> 2 * IterCap + 2],
      [k |-> 2, counts |-> <<2 * IterCap + 2, 1>>, n |-> 2 * IterCap + 2] }

BalIdle ==
    [pc |-> "idle", qids |-> <<>>, counts |-> <<>>, n |-> 0, total_disp |-> 0,
     target |-> 0, alive |-> <<>>, alloc |-> <<>>, remaining |-> 0, i |-> 0,
     ret_total |-> 0, ret_len |-> 0]

\* the call: arguments bound, nothing computed yet
BalCall(inp) ==
    [BalIdle EXCEPT !.pc = "entry",
                    !.qids = [j \in 1..inp.k |-> j],
                    !.counts = inp.counts,
                    !.n = inp.n]

\* alive = [qid for qid in qids if counts[qid] > 0], in list order
AliveOf(qids, counts) == SelectSeq(qids, LAMBDA q : counts[q] > 0)

\* lines 353-379: guards, counts, target, uniform base share, loop set-up
BalStartMutNoClamp ==
    /\ UNCHANGED examVars
    /\ bal.pc = "entry"
    /\ LET total == SumOver(bal.counts, DOMAIN bal.counts)
           alive == AliveOf(bal.qids, bal.counts)
       IN IF Len(bal.qids) = 0 \/ bal.n <= 0 \/ total = 0 \/ Len(alive) = 0
          THEN bal' = [bal EXCEPT !.pc = "returned", !.ret_total = 0]
          ELSE LET target == Min(bal.n, total)
                   base == target \div Len(alive)
                   alloc == [q \in Range(alive) |-> base]
               IN bal' = [bal EXCEPT
                            !.pc = "loop",
                            !.total_disp = total,
                            !.target = target,
                            !.alive = alive,
                            !.alloc = alloc,
                            !.remaining = target - SumOver(alloc, Range(alive)),
                            !.i = 0]

BalStart ==
    /\ UNCHANGED examVars
    /\ bal.pc = "entry"
    /\ LET total == SumOver(bal.counts, DOMAIN bal.counts)
           alive == AliveOf(bal.qids, bal.counts)
       IN IF Len(bal.qids) = 0 \/ bal.n <= 0 \/ total = 0 \/ Len(alive) = 0
          THEN bal' = [bal EXCEPT !.pc = "returned", !.ret_total = 0]
          ELSE LET target == Min(bal.n, total)
                   base == target \div Len(alive)
                   alloc == [q \in Range(alive) |-> Min(base, bal.counts[q])]
               IN bal' = [bal EXCEPT
                            !.pc = "loop",
                            !.total_disp = total,
                            !.target = target,
                            !.alive = alive,
                            !.alloc = alloc,
                            !.remaining = target - SumOver(alloc, Range(alive)),
                            !.i = 0]

\* lines 381-389: one iteration of the round-robin loop, or its exit
\* (round robin lost: every remainder unit goes to the head of the list)
BalLoopMutHead ==
    /\ UNCHANGED examVars
    /\ bal.pc = "loop"
    /\ IF bal.remaining > 0 /\ Len(bal.alive) > 0
       THEN LET q == bal.alive[1]
                take == bal.alloc[q] < bal.counts[q]
                a == IF take THEN [bal.alloc EXCEPT ![q] = @ + 1] ELSE bal.alloc
                r == IF take THEN bal.remaining - 1 ELSE bal.remaining
                i2 == bal.i + 1
            IN bal' = [bal EXCEPT !.alloc = a,
                                  !.remaining = r,
                                  !.i = i2,
                                  !.pc = IF i2 > IterCap THEN "sample" ELSE "loop"]
       ELSE bal' = [bal EXCEPT !.pc = "sample"]

BalLoop ==
    /\ UNCHANGED examVars
    /\ bal.pc = "loop"
    /\ IF bal.remaining > 0 /\ Len(bal.alive) > 0
       THEN LET q == bal.alive[(bal.i % Len(bal.alive)) + 1]
                take == bal.alloc[q] < bal.counts[q]
                a == IF take THEN [bal.alloc EXCEPT ![q] = @ + 1] ELSE bal.alloc
                r == IF take THEN bal.remaining - 1 ELSE bal.remaining
                i2 == bal.i + 1
            IN bal' = [bal EXCEPT !.alloc = a,
                                  !.remaining = r,
                                  !.i = i2,
                                  !.pc = IF i2 > IterCap THEN "sample" ELSE "loop"]
       ELSE bal' = [bal EXCEPT !.pc = "sample"]

\* lines 391-403: the samples are drawn and the function returns; $sample
\* of size k on a questionnaire gives min(k, its questions) documents, and
\* ret_len is the length of the list returned
BalReturn ==
    /\ UNCHANGED examVars
    /\ bal.pc = "sample"
    /\ LET sampled == [q \in Range(bal.alive) |->
                         IF bal.alloc[q] <= 0 THEN 0
                         ELSE Min(bal.alloc[q], bal.counts[q])]
       IN bal' = [bal EXCEPT !.pc = "returned",
                             !.ret_total = bal.total_disp,
                             !.ret_len = SumOver(sampled, Range(bal.alive))]

(***************************************************************************)
(* Questions and the answer evaluation of the exam page                    *)
(***************************************************************************)
\* Bounds of the exam model
NumQuestionarios == 2

MaxQuestoes == 2

MaxSimulados == 2

Letras == <<"A", "B", "C", "D", "E">>

\* index=0 of both radios
Placeholder == "- Selecione -"

\* the labels f"{letra}) {alt}" of a two-option MC question
MCLabels == <<"A) alt_a", "B) alt_b">>

\* escolha.split(")")[0]: the text before the first ")" of a label
SplitLetra(label) ==
    LET j == CHOOSE x \in DOMAIN MCLabels : MCLabels[x] = label IN Letras[j]

\* prompt texts of the questions, by id
TextoDe(id) == <<"T1", "T2", "T3", "T4", "T5", "T6">>[id]

\* the document of the question with the given id: questions alternate
\* between the questionnaires; odd ids are VF (key V, F, V, ...), even MC
QuestaoDoc(id) ==
    [questionario_id |-> ((id - 1) % NumQuestionarios) + 1,
     tipo |-> IF id % 2 = 1 THEN "VF" ELSE "MC",
     texto |-> TextoDe(id),
     ops |-> IF id % 2 = 1 THEN <<>> ELSE <<"alt_a", "alt_b">>,
     correta_text |-> IF id % 2 = 1
                      THEN (IF id % 4 = 1 THEN "V" ELSE "F")
                      ELSE "B"]

\* what the radio of a question offers besides the placeholder
Escolhas(q) == IF q.tipo = "VF" THEN {"Verdadeiro", "Falso"} ELSE Range(MCLabels)

\* lines 1692-1694 and 1713-1714
IsCorrect(q, escolha) ==
    IF q.tipo = "VF"
    THEN LET gabarito == (q.correta_text = "V")
             user == (escolha = "Verdadeiro")
         IN gabarito = user
    ELSE SplitLetra(escolha) = q.correta_text

\* the value stored as "resposta": the radio text (VF) or the letter (MC)
RespostaRaw(q, escolha) == IF q.tipo = "VF" THEN escolha ELSE SplitLetra(escolha)

(***************************************************************************)
(* db.simulados                                                            *)
(***************************************************************************)
\* create_simulado: the new document (timestamps and meta left out)
SimuladoDoc(nome, pool_ids) ==
    [nome |-> IF nome = "" THEN "Simulado <data>" ELSE nome,
     pool_ids |-> pool_ids,
     idx |-> 0,
     acertos |-> 0,
     total |-> Len(pool_ids),
     status |-> "in_progress",
     respostas |-> <<>>]

\* $set of the fields of `sets` on document sim_id, if it exists
(* mutant: advancing the cursor also removes the entry it leaves *)
update_simulado_progress_MutPool(sims, sim_id, sets) ==
    IF sim_id \notin DOMAIN sims THEN sims
    ELSE LET d == [f \in DOMAIN sims[sim_id] |->
                     IF f \in DOMAIN sets THEN sets[f] ELSE sims[sim_id][f]]
             d2 == IF "idx" \in DOMAIN sets /\ sets.idx > sims[sim_id].idx
                   THEN [d EXCEPT !.pool_ids =
                           SubSeq(@, 1, sims[sim_id].idx) \o
                           SubSeq(@, sims[sim_id].idx + 2, Len(@))]
                   ELSE d
         IN [sims EXCEPT ![sim_id] = d2]

update_simulado_progress(sims, sim_id, sets) ==
    IF sim_id \notin DOMAIN sims THEN sims
    ELSE [sims EXCEPT ![sim_id] =
            [f \in DOMAIN @ |-> IF f \in DOMAIN sets THEN sets[f] ELSE @[f]]]

\* $push onto respostas of document sim_id, if it exists
add_simulado_resposta(sims, sim_id, questao_id, correto, resposta_raw) ==
    IF sim_id \notin DOMAIN sims THEN sims
    ELSE [sims EXCEPT ![sim_id].respostas =
            Append(@, [questao_id |-> questao_id,
                       correto |-> IF correto THEN 1 ELSE 0,
                       resposta |-> resposta_raw])]

update_simulado_nome(sims, sim_id, novo_nome) ==
    IF sim_id \notin DOMAIN sims THEN sims
    ELSE [sims EXCEPT ![sim_id].nome = novo_nome]

RECURSIVE LastAnswer(_)
\* lines 1637-1643: questao_id -> correto of its last recorded answer
LastAnswer(rs) ==
    IF rs = <<>> THEN Empty
    ELSE LET r == rs[Len(rs)]
             before == LastAnswer(SubSeq(rs, 1, Len(rs) - 1))
         IN Put(before, r.questao_id, r.correto = 1)

\* line 1668: the write that skips a question that no longer exists
(* mutant: the skip counts the missing question as correct *)
SkipWriteMutAcertos(sims, sim_id, idx, acertos) ==
    update_simulado_progress(sims, sim_id,
                             [idx |-> idx + 1, acertos |-> acertos + 1])

(* mutant: the skip leaves the cursor on the missing question *)
SkipWriteMutStay(sims, sim_id, idx, acertos) ==
    update_simulado_progress(sims, sim_id, [idx |-> idx, acertos |-> acertos])

SkipWrite(sims, sim_id, idx, acertos) ==
    update_simulado_progress(sims, sim_id, [idx |-> idx + 1, acertos |-> acertos])

\* lines 1749-1751: the write of the Next button
(* mutant: Next jumps over a question *)
NextWriteMutJump(sims, sim_id, idx, acertos, len) ==
    LET new_idx == idx + 2
        new_status == IF new_idx >= len THEN "finished" ELSE "in_progress"
    IN update_simulado_progress(sims, sim_id,
          [idx |-> new_idx, acertos |-> acertos, status |-> new_status])

NextWrite(sims, sim_id, idx, acertos, len) ==
    LET new_idx == idx + 1
        new_status == IF new_idx >= len THEN "finished" ELSE "in_progress"
    IN update_simulado_progress(sims, sim_id,
          [idx |-> new_idx, acertos |-> acertos, status |-> new_status])

\* line 1649: the write of the final page
(* mutant: the final page also takes the cursor back to the start *)
FinishWriteMutRewind(sims, sim_id) ==
    update_simulado_progress(sims, sim_id, [status |-> "finished", idx |-> 0])

FinishWrite(sims, sim_id) ==
    update_simulado_progress(sims, sim_id, [status |-> "finished"])

\* lines 1691 and 1712: a submission is recorded when the question has no
\* answered flag in the session and the radio is off its placeholder
(* mutant: the answered flag is not consulted *)
ShouldRecordMutNoFlag(s, key, escolha) == escolha # Placeholder

ShouldRecord(s, key, escolha) ==
    key \notin DOMAIN s.result_sim /\ escolha # Placeholder

\* the radio's value: its session entry, else the placeholder (index=0)
RadioValue(s, key) ==
    IF key \in DOMAIN s.radio_sim THEN s.radio_sim[key] ELSE Placeholder

\* lines 1679-1683: a persisted answer locks the question in this session
RestoreAnswered(s, key, last_answer) ==
    IF key[2] \in DOMAIN last_answer /\ key \notin DOMAIN s.result_sim
    THEN [s EXCEPT !.result_sim = Put(@, key, last_answer[key[2]])]
    ELSE s

\* lines 1753-1755: Next forgets the question's session keys
ForgetKeys(s, key) ==
    [s EXCEPT !.result_sim = Drop(@, {key}), !.radio_sim = Drop(@, {key})]

(***************************************************************************)
(* page_run_simulado: one run of the script.  sel is the radio value the   *)
(* user has just chosen ("keep" when the run has another cause), clicked   *)
(* tells that the run was caused by the Next button.                       *)
(***************************************************************************)
Keep == "keep"

PageRunSimulado(sel, clicked) ==
    LET sim_id == ss.current_simulado_id
        s0 == [ss EXCEPT !.rerun = FALSE]
    IN
    IF sim_id = NoId
    THEN /\ ss' = [s0 EXCEPT !.mode = "none"]
         /\ UNCHANGED simulados
    ELSE IF sim_id \notin DOMAIN simulados
    THEN /\ ss' = [s0 EXCEPT !.current_simulado_id = NoId, !.mode = "none"]
         /\ UNCHANGED simulados
    ELSE
    LET sim == simulados[sim_id]
        pool_ids == sim.pool_ids
        idx == sim.idx
        acertos == sim.acertos
        total == IF sim.total # 0 THEN sim.total ELSE Len(pool_ids)
    IN
    IF Len(pool_ids) = 0 \/ total = 0
    THEN /\ ss' = [s0 EXCEPT !.mode = "none"]
         /\ UNCHANGED simulados
    ELSE IF idx >= Len(pool_ids) \/ sim.status = "finished"
    THEN /\ simulados' = FinishWrite(simulados, sim_id)
         /\ ss' = s0
    ELSE IF pool_ids[idx + 1] \notin DOMAIN questoes
    THEN /\ simulados' = SkipWrite(simulados, sim_id, idx, acertos)
         /\ ss' = [s0 EXCEPT !.rerun = TRUE]
    ELSE
    LET questao_id == pool_ids[idx + 1]
        q == questoes[questao_id]
        key == <<sim_id, questao_id>>
        s1 == RestoreAnswered(s0, key, LastAnswer(sim.respostas))
        s2 == IF sel = Keep THEN s1
              ELSE [s1 EXCEPT !.radio_sim = Put(@, key, sel)]
        escolha == RadioValue(s2, key)
        record == ShouldRecord(s2, key, escolha)
        is_correct == IsCorrect(q, escolha)
        acertos2 == IF record /\ is_correct THEN acertos + 1 ELSE acertos
        sims2 == IF record
                 THEN update_simulado_progress(
                         add_simulado_resposta(simulados, sim_id, questao_id,
                                               is_correct, RespostaRaw(q, escolha)),
                         sim_id, [acertos |-> acertos2])
                 ELSE simulados
        s3 == IF record
              THEN [s2 EXCEPT !.result_sim = Put(@, key, is_correct)]
              ELSE s2
    IN
    IF clicked
    THEN /\ simulados' = NextWrite(sims2, sim_id, idx, acertos2, Len(pool_ids))
         /\ ss' = [ForgetKeys(s3, key) EXCEPT !.rerun = TRUE]
    ELSE /\ simulados' = sims2
         /\ ss' = s3

\* what the last completed run left on the screen
OnExamPage == ss.mode = "run_simulado" /\ ~ss.rerun /\ run.pc = "idle"

ShowsQuestion ==
    /\ OnExamPage
    /\ ss.current_simulado_id \in DOMAIN simulados
    /\ LET sim == simulados[ss.current_simulado_id]
       IN /\ sim.idx < Len(sim.pool_ids)
          /\ sim.status # "finished"
          /\ sim.pool_ids[sim.idx + 1] \in DOMAIN questoes

ShowsFinal ==
    /\ OnExamPage
    /\ ss.current_simulado_id \in DOMAIN simulados
    /\ LET sim == simulados[ss.current_simulado_id]
       IN /\ Len(sim.pool_ids) > 0
          /\ (sim.idx >= Len(sim.pool_ids) \/ sim.status = "finished")

CurrentKey ==
    LET sim == simulados[ss.current_simulado_id]
    IN <<ss.current_simulado_id, sim.pool_ids[sim.idx + 1]>>

\* any run of the exam page not caused by one of its own widgets: the
\* rerun a handler asked for, a page reload, coming back to the page
RunSimulado ==
    /\ ss.mode = "run_simulado"
    /\ run.pc = "idle"
    /\ PageRunSimulado(Keep, FALSE)
    /\ UNCHANGED <<questionarios, questoes, oid, run, bal, sq, peer, respostas>>

\* the user picks an option of the (enabled) radio
SelectAnswer(sel) ==
    /\ ShowsQuestion
    /\ CurrentKey \notin DOMAIN ss.result_sim
    /\ sel \in Escolhas(questoes[CurrentKey[2]]) \cup {Placeholder}
    /\ PageRunSimulado(sel, FALSE)
    /\ UNCHANGED <<questionarios, questoes, oid, run, bal, sq, peer, respostas>>

\* the user presses "Próxima"
ClickNext ==
    /\ ShowsQuestion
    /\ PageRunSimulado(Keep, TRUE)
    /\ UNCHANGED <<questionarios, questoes, oid, run, bal, sq, peer, respostas>>

\* lines 1652-1660: "Voltar aos simulados" on the final page
ClickVoltar ==
    /\ ShowsFinal
    /\ ss' = [ss EXCEPT !.mode = "none", !.rerun = FALSE]
    /\ UNCHANGED <<questionarios, questoes, simulados, oid, run, bal, sq, peer, respostas>>

(***************************************************************************)
(* page_simulado: the list of saved exams and the assembly form, shown     *)
(* while mode is not "run_simulado"                                        *)
(***************************************************************************)
OnListPage == ss.mode # "run_simulado" /\ run.pc = "idle"

\* the sequences without repetition of exactly m elements of S
RECURSIVE Arrangements(_, _)
Arrangements(S, m) ==
    IF m = 0 THEN {<<>>}
    ELSE UNION { {<<x>> \o t : t \in Arrangements(S \ {x}, m - 1)} : x \in S }

(* mutant: the sample is drawn with repetition and is not clamped *)
get_random_questoesMutRepeat(qids, m) ==
    LET matching == {id \in DOMAIN questoes : questoes[id].questionario_id \in qids}
    IN [1..m -> matching]

\* get_random_questoes: $match questionario_id in qids, $sample size n:
\* any min(n, available) distinct matching documents, in any order
get_random_questoes(qids, m) ==
    LET matching == {id \in DOMAIN questoes : questoes[id].questionario_id \in qids}
    IN Arrangements(matching, Min(m, Cardinality(matching)))

\* the names page_simulado offers for selection (line 1480)
Selectable == {id \in DOMAIN questionarios : questionarios[id].nome # "Favoritos"}

TotalDisp(qids) ==
    Cardinality({id \in DOMAIN questoes : questoes[id].questionario_id \in qids})

\* lines 1596-1607: "Iniciar Simulado", mode "Por questionário"
CreateSimuladoDirect(qids, m, pool_ids) ==
    /\ OnListPage
    /\ oid.simulados < MaxSimulados
    /\ qids # {} /\ qids \subseteq Selectable
    /\ TotalDisp(qids) > 0
    /\ m \in 1..TotalDisp(qids)
    /\ pool_ids \in get_random_questoes(qids, m)
    /\ LET sim_id == oid.simulados + 1
       IN /\ simulados' = Put(simulados, sim_id, SimuladoDoc("", pool_ids))
          /\ oid' = [oid EXCEPT !.simulados = sim_id]
          /\ ss' = [ss EXCEPT !.current_simulado_id = sim_id,
                              !.mode = "run_simulado",
                              !.rerun = TRUE]
    /\ UNCHANGED <<questionarios, questoes, run, bal, sq, peer, respostas>>

\* lines 1460-1464: "Abrir / Continuar"
OpenSimulado(sim_id) ==
    /\ OnListPage
    /\ sim_id \in DOMAIN simulados
    /\ ss' = [ss EXCEPT !.current_simulado_id = sim_id,
                        !.mode = "run_simulado",
                        !.rerun = TRUE]
    /\ UNCHANGED <<questionarios, questoes, simulados, oid, run, bal, sq, peer, respostas>>

\* lines 1466-1471: "Excluir"
DeleteSimulado(sim_id) ==
    /\ OnListPage
    /\ sim_id \in DOMAIN simulados
    /\ simulados' = Drop(simulados, {sim_id})
    /\ ss' = IF ss.current_simulado_id = sim_id
             THEN [ss EXCEPT !.current_simulado_id = NoId, !.mode = "none"]
             ELSE ss
    /\ UNCHANGED <<questionarios, questoes, oid, run, bal, sq, peer, respostas>>

\* lines 1473-1477: "Salvar nome"
RenameSimulado(sim_id, novo_nome) ==
    /\ OnListPage
    /\ sim_id \in DOMAIN simulados
    /\ simulados[sim_id].nome # novo_nome
    /\ simulados' = update_simulado_nome(simulados, sim_id, novo_nome)
    /\ UNCHANGED <<questionarios, questoes, oid, ss, run, bal, sq, peer, respostas>>

(***************************************************************************)
(* The rest of the application, as far as it touches an exam               *)
(***************************************************************************)
\* the browser session ends (tab closed, server restarted); the next
\* visit starts from an empty session_state
CloseSession ==
    /\ run.pc = "idle"
    /\ ss # SessionNew
    /\ ss' = SessionNew
    /\ UNCHANGED <<questionarios, questoes, simulados, oid, run, bal, sq, peer, respostas>>

\* the session has the exam page or the practice page open: the page
\* runs again when the user comes back from another page
PageOpen == ss.mode = "run_simulado" \/ ss.current_qid # NoId

\* delete_questionario from the dashboard: the questionnaire, its questions
\* and its answer events go
(* mutant: the delete leaves the answer events of the questionnaire *)
DeleteQuestionarioMutKeepEvents(qid) ==
    /\ run.pc = "idle"
    /\ qid \in DOMAIN questionarios
    /\ questionarios[qid].nome \notin {"Caderno de Erros", "Favoritos"}
    /\ questoes' = Drop(questoes, {id \in DOMAIN questoes :
                                      questoes[id].questionario_id = qid})
    /\ questionarios' = Drop(questionarios, {qid})
    /\ ss' = [ss EXCEPT !.rerun = PageOpen]
    /\ UNCHANGED <<simulados, oid, run, bal, sq, peer, respostas>>

(* mutant: the delete leaves the questions of the questionnaire *)
DeleteQuestionarioMutKeepQuestoes(qid) ==
    /\ run.pc = "idle"
    /\ qid \in DOMAIN questionarios
    /\ questionarios[qid].nome \notin {"Caderno de Erros", "Favoritos"}
    /\ respostas' = SelectSeq(respostas, LAMBDA r : r.questionario_id # qid)
    /\ questionarios' = Drop(questionarios, {qid})
    /\ ss' = [ss EXCEPT !.rerun = PageOpen]
    /\ UNCHANGED <<questoes, simulados, oid, run, bal, sq, peer>>

(* mutant: the delete is offered for every questionnaire *)
DeleteQuestionarioMutAnyName(qid) ==
    /\ run.pc = "idle"
    /\ qid \in DOMAIN questionarios
    /\ questoes' = Drop(questoes, {id \in DOMAIN questoes :
                                      questoes[id].questionario_id = qid})
    /\ respostas' = SelectSeq(respostas, LAMBDA r : r.questionario_id # qid)
    /\ questionarios' = Drop(questionarios, {qid})
    /\ ss' = [ss EXCEPT !.rerun = PageOpen]
    /\ UNCHANGED <<simulados, oid, run, bal, sq, peer>>

DeleteQuestionario(qid) ==
    /\ run.pc = "idle"
    /\ qid \in DOMAIN questionarios
    /\ questionarios[qid].nome \notin {"Caderno de Erros", "Favoritos"}
    /\ questoes' = Drop(questoes, {id \in DOMAIN questoes :
                                      questoes[id].questionario_id = qid})
    /\ respostas' = SelectSeq(respostas, LAMBDA r : r.questionario_id # qid)
    /\ questionarios' = Drop(questionarios, {qid})
    /\ ss' = [ss EXCEPT !.rerun = PageOpen]
    /\ UNCHANGED <<simulados, oid, run, bal, sq, peer>>

\* a question is added to a questionnaire (manual entry, import)
AddQuestao(qid) ==
    /\ run.pc = "idle"
    /\ qid \in DOMAIN questionarios
    /\ oid.questoes < MaxQuestoes
    /\ LET id == oid.questoes + 1
       IN /\ questoes' = Put(questoes, id, [QuestaoDoc(id) EXCEPT !.questionario_id = qid])
          /\ oid' = [oid EXCEPT !.questoes = id]
    /\ ss' = [ss EXCEPT !.rerun = PageOpen]
    /\ UNCHANGED <<questionarios, simulados, run, bal, sq, peer, respostas>>

\* names of the user's questionnaires, by id
NomeDe(id) == <<"Q1", "Q2", "Q3", "Q4", "Q5", "Q6">>[id]

\* ids of the two notebooks init_db creates
FavoritosId == NumQuestionarios + 1

ErrosId == NumQuestionarios + 2

\* the user's own questionnaires
UserQs == 1..NumQuestionarios

\* a questionnaire document; progress_pool <<>> and progress_idx 0 stand
\* for the absent fields (get_questionario_progress reads them so)
QuestionarioDoc(nome, disciplina) ==
    [nome |-> nome, disciplina |-> disciplina,
     progress_pool |-> <<>>, progress_idx |-> 0]

\* a store holding the two notebooks of init_db, NumQuestionarios
\* questionnaires and the questions 1..nq, which alternate between them
StoreWith(nq) ==
    /\ questionarios =
          [id \in 1..(NumQuestionarios + 2) |->
             IF id = FavoritosId THEN QuestionarioDoc("Favoritos", "Sistema")
             ELSE IF id = ErrosId THEN QuestionarioDoc("Caderno de Erros", "Sistema")
             ELSE QuestionarioDoc(NomeDe(id), "Sem Disciplina")]
    /\ questoes = [id \in 1..nq |-> QuestaoDoc(id)]
    /\ respostas = <<>>

\* no exam yet, room for one more question, a fresh session
InitExam ==
    /\ StoreWith(MaxQuestoes - 1)
    /\ simulados = Empty
    /\ oid = [questionarios |-> NumQuestionarios + 2,
              questoes |-> MaxQuestoes - 1,
              simulados |-> 0]
    /\ ss = SessionNew
    /\ run = RunIdle
    /\ bal = BalIdle
    /\ sq = SqIdle
    /\ peer = PeerIdle

NextExam ==
    \/ \E qids \in SUBSET Selectable, m \in 1..MaxQuestoes :
          \E pool_ids \in get_random_questoes(qids, m) :
             CreateSimuladoDirect(qids, m, pool_ids)
    \/ \E sim_id \in DOMAIN simulados : OpenSimulado(sim_id)
    \/ \E sim_id \in DOMAIN simulados : DeleteSimulado(sim_id)
    \/ \E sim_id \in DOMAIN simulados : RenameSimulado(sim_id, "R")
    \/ RunSimulado
    \/ \E sel \in {"Verdadeiro", "Falso", Placeholder} \cup Range(MCLabels) :
          SelectAnswer(sel)
    \/ ClickNext
    \/ ClickVoltar
    \/ CloseSession
    \/ \E qid \in DOMAIN questionarios : DeleteQuestionario(qid)
    \/ \E qid \in UserQs : AddQuestao(qid)

\* the exams of one user: assembled, run, renamed and deleted while
\* questions come and go
SpecExam == InitExam /\ [][NextExam]_vars

\* the state "Iniciar Simulado" leaves: one exam over any of the pools
\* get_random_questoes can return from the MaxQuestoes questions, selected
\* in the session, its first run still to come
InitExamRun ==
    /\ StoreWith(MaxQuestoes)
    /\ \E qids \in SUBSET (1..NumQuestionarios) \ {{}} :
         \E m \in 1..MaxQuestoes :
            /\ TotalDisp(qids) > 0
            /\ m <= TotalDisp(qids)
            /\ \E pool_ids \in get_random_questoes(qids, m) :
                  simulados = Put(Empty, 1, SimuladoDoc("", pool_ids))
    /\ oid = [questionarios |-> NumQuestionarios + 2,
              questoes |-> MaxQuestoes,
              simulados |-> 1]
    /\ ss = [SessionNew EXCEPT !.current_simulado_id = 1,
                               !.mode = "run_simulado",
                               !.rerun = TRUE]
    /\ run = RunIdle
    /\ bal = BalIdle
    /\ sq = SqIdle
    /\ peer = PeerIdle

NextExamRun ==
    \/ \E sim_id \in DOMAIN simulados : OpenSimulado(sim_id)
    \/ RunSimulado
    \/ \E sel \in {"Verdadeiro", "Falso", Placeholder} \cup Range(MCLabels) :
          SelectAnswer(sel)
    \/ ClickNext
    \/ ClickVoltar
    \/ CloseSession
    \/ \E qid \in DOMAIN questionarios : DeleteQuestionario(qid)

\* the session of one persisted exam, from its creation on
SpecExamRun == InitExamRun /\ [][NextExamRun]_vars

(***************************************************************************)
(* Practice: page_praticar and render_questao                              *)
(***************************************************************************)
\* Bound of the practice model: answer events the store may hold
MaxRespostas == 2

RECURSIVE SortedSeq(_)
\* the elements of a set of ids in ascending order (sort("_id", ASCENDING))
SortedSeq(S) ==
    IF S = {} THEN <<>>
    ELSE LET m == CHOOSE x \in S : \A y \in S : x <= y
         IN <<m>> \o SortedSeq(S \ {m})

\* get_questoes(qid): the ids of the questionnaire's questions
get_questoes(qid) ==
    SortedSeq({id \in DOMAIN questoes : questoes[id].questionario_id = qid})

\* get_questionario_progress: <<pool, idx>> saved on the questionnaire
(* mutant: the saved cursor is not read back *)
get_questionario_progress_MutIdx(qid) ==
    IF qid \in DOMAIN questionarios
    THEN <<questionarios[qid].progress_pool, 0>>
    ELSE <<<<>>, 0>>

(* mutant: the saved pool is not read back *)
get_questionario_progress_MutForget(qid) == <<<<>>, 0>>

get_questionario_progress(qid) ==
    IF qid \in DOMAIN questionarios
    THEN <<questionarios[qid].progress_pool,
           Max(0, questionarios[qid].progress_idx)>>
    ELSE <<<<>>, 0>>

(* mutant: the cursor is not saved with the pool *)
set_questionario_progress_MutPoolOnly(qs, qid, pool, idx) ==
    IF qid \in DOMAIN qs
    THEN [qs EXCEPT ![qid].progress_pool = pool]
    ELSE qs

\* set_questionario_progress: update_one with $set
set_questionario_progress(qs, qid, pool, idx) ==
    IF qid \in DOMAIN qs
    THEN [qs EXCEPT ![qid].progress_pool = pool, ![qid].progress_idx = idx]
    ELSE qs

\* save_resposta: insert_one into db.respostas
save_resposta(rs, questionario_id, questao_id, correto) ==
    Append(rs, [questionario_id |-> questionario_id,
                questao_id |-> questao_id,
                correto |-> IF correto THEN 1 ELSE 0])

\* duplicar_questao_para_erros: the questions after the call; the notebook
\* is looked up by name and gets a copy unless it holds the same texto
duplicar_questao_para_erros(qs, questao_id, new_id) ==
    LET erros == CHOOSE e \in DOMAIN questionarios :
                    questionarios[e].nome = "Caderno de Erros"
    IN IF questao_id \notin DOMAIN qs THEN qs
       ELSE IF \E x \in DOMAIN qs : /\ qs[x].questionario_id = erros
                                    /\ qs[x].texto = qs[questao_id].texto
       THEN qs
       ELSE Put(qs, new_id, [qs[questao_id] EXCEPT !.questionario_id = erros])

\* str.strip on the texts of this model; a text not listed is left as it is
Strip(t) ==
    LET tab == [x \in {" vf ", " N1 "} |-> IF x = " vf " THEN "vf" ELSE "N1"]
    IN IF t \in DOMAIN tab THEN tab[t] ELSE t

\* update_questao_texto: the questions after the $set of texto
update_questao_texto(qs, questao_id, novo_texto) ==
    [qs EXCEPT ![questao_id].texto = novo_texto]

\* the questionnaires page_praticar lists (line 1228), and the one its
\* selectbox shows first: they are sorted by (disciplina, nome), which for
\* the names of this model is the order of their ids
Praticaveis ==
    {id \in DOMAIN questionarios : questionarios[id].nome # "Caderno de Erros"}

PrimeiroPraticavel == CHOOSE x \in Praticaveis : \A y \in Praticaveis : x <= y

\* resetar_resolucoes: the session keys it deletes are those starting with
\* answered_, result_, vf_, mc_ (of every question and of every exam) and
\* pool_{qid}, idx_{qid}
ResetSessionKeys(s, qid) ==
    [s EXCEPT !.answered = Empty,
              !.vf = Empty,
              !.result_sim = Empty,
              !.radio_sim = Empty,
              !.pool = Drop(@, {qid}),
              !.idx = Drop(@, {qid})]

\* the letters of the buttons of an MC question
MCLetras == {SplitLetra(l) : l \in Range(MCLabels)}

(* mutant: a multiple-choice submission is compared with the first letter *)
IsCorrectPraticaMutFirstLetter(q, escolha) ==
    IF q.tipo = "VF"
    THEN (q.correta_text = "V") = (escolha = "Verdadeiro")
    ELSE escolha = "A"

\* render_questao's evaluation of a submission
IsCorrectPratica(q, escolha) ==
    IF q.tipo = "VF"
    THEN LET gabarito == (q.correta_text = "V")
             user == (escolha = "Verdadeiro")
         IN gabarito = user
    ELSE escolha = q.correta_text

\* render_questao (lines 842-914) for question id of questionnaire
\* parent_qid: ev "vf" carries the new radio value, ev "mc" the letter of
\* the button pressed.  Yields the session, the answer events and the
\* questions after it.
RenderQuestao(s, id, parent_qid, ev, arg) ==
    LET q == questoes[id]
        sA == IF q.tipo = "VF"
              THEN (IF ev = "vf" THEN [s EXCEPT !.vf = Put(@, id, arg)] ELSE s)
              ELSE (IF ev = "mc" /\ id \notin DOMAIN s.answered
                    THEN [s EXCEPT !.answer_letter = Put(@, id, arg)]
                    ELSE s)
        escolha == IF q.tipo = "VF"
                   THEN (IF id \in DOMAIN sA.vf THEN sA.vf[id] ELSE Placeholder)
                   ELSE (IF id \in DOMAIN sA.answer_letter
                         THEN sA.answer_letter[id] ELSE Placeholder)
        record == id \notin DOMAIN sA.answered /\ escolha # Placeholder
        is_correct == IsCorrectPratica(q, escolha)
    IN IF record
       THEN [s |-> [sA EXCEPT !.answered = Put(@, id, is_correct)],
             respostas |-> save_resposta(respostas, parent_qid, id, is_correct),
             questoes |-> IF is_correct THEN questoes
                          ELSE duplicar_questao_para_erros(questoes, id,
                                                           oid.questoes + 1),
             recorded |-> TRUE]
       ELSE [s |-> sA, respostas |-> respostas, questoes |-> questoes,
             recorded |-> FALSE]

\* a script run that completes drops the state of the widgets it did not
\* draw: of the practice radios only that of the question shown remains
KeepWidgets(s, shown) == [s EXCEPT !.vf = [x \in DOMAIN @ \cap shown |-> @[x]]]

(***************************************************************************)
(* page_praticar: one run of the script.  ev is the widget that caused the *)
(* run ("run": none of them), arg its value, shuffled the order            *)
(* random.shuffle would give to the questionnaire's questions.             *)
(***************************************************************************)
\* lines 1308, 1313 and 1327: where the navigation buttons put the cursor
PrevIdx(idx) == Max(0, idx - 1)

(* mutant: Next is not clamped to the last index and jumps a question *)
NextIdxMutJump(idx, total_questoes) == idx + 2

NextIdx(idx, total_questoes) == Min(total_questoes - 1, idx + 1)

PagePraticar(ev, arg, shuffled) ==
    LET s0 == [ss EXCEPT !.rerun = FALSE]
        qid == IF ev = "select" THEN arg
               ELSE IF ss.current_qid \in Praticaveis THEN ss.current_qid
               ELSE PrimeiroPraticavel
        s1 == [s0 EXCEPT !.current_qid = qid]
    IN
    IF ev = "reset"
    THEN \* lines 1253-1255
         /\ respostas' = SelectSeq(respostas, LAMBDA r : r.questionario_id # qid)
         /\ ss' = [ResetSessionKeys(s1, qid) EXCEPT !.rerun = TRUE]
         /\ run' = [run EXCEPT !.reset_qid = qid]
         /\ UNCHANGED <<questionarios, questoes, oid>>
    ELSE
    LET load == qid \notin DOMAIN s1.pool
        saved == get_questionario_progress(qid)
        current_ids == Range(get_questoes(qid))
        saved_pool == SelectSeq(saved[1], LAMBDA x : x \in current_ids)
        pool == IF ~load THEN s1.pool[qid]
                ELSE IF saved_pool # <<>> THEN saved_pool
                ELSE shuffled
        idx0 == IF ~load THEN s1.idx[qid]
                ELSE IF saved_pool # <<>>
                THEN Min(Max(saved[2], 0), Len(saved_pool) - 1)
                ELSE 0
        s2 == [s1 EXCEPT !.pool = Put(@, qid, pool), !.idx = Put(@, qid, idx0)]
        qs1 == IF load THEN set_questionario_progress(questionarios, qid, pool, idx0)
               ELSE questionarios
        run1 == IF load /\ run.reset_qid = qid
                THEN [run EXCEPT !.reset_qid = NoId] ELSE run
    IN
    IF pool = <<>>
    THEN \* lines 1288-1290
         /\ ss' = KeepWidgets(s2, {})
         /\ questionarios' = qs1
         /\ run' = run1
         /\ UNCHANGED <<questoes, respostas, oid>>
    ELSE
    LET idx == Max(0, Min(idx0, Len(pool) - 1))
        s3 == [s2 EXCEPT !.idx = Put(@, qid, idx)]
        qs2 == set_questionario_progress(qs1, qid, pool, idx)
        total_questoes == Len(pool)
        next_idx == NextIdx(idx, total_questoes)
    IN
    IF ev = "prev_top"
    THEN /\ ss' = [s3 EXCEPT !.idx = Put(@, qid, PrevIdx(idx)), !.rerun = TRUE]
         /\ questionarios' = set_questionario_progress(qs2, qid, pool, PrevIdx(idx))
         /\ run' = run1
         /\ UNCHANGED <<questoes, respostas, oid>>
    ELSE IF ev = "next_top"
    THEN /\ ss' = [s3 EXCEPT !.idx = Put(@, qid, next_idx), !.rerun = TRUE]
         /\ questionarios' = set_questionario_progress(qs2, qid, pool, next_idx)
         /\ run' = run1
         /\ UNCHANGED <<questoes, respostas, oid>>
    ELSE IF pool[idx + 1] \notin DOMAIN questoes
    THEN \* get_questao_by_id gives None and render_questao raises on it
         /\ ss' = KeepWidgets(s3, {})
         /\ questionarios' = qs2
         /\ run' = run1
         /\ UNCHANGED <<questoes, respostas, oid>>
    ELSE IF ev = "edit"
    THEN \* render_questao lines 837-842, "Salvar enunciado + gabarito" with
         \* the text area holding arg and the answer key left as drawn
         /\ ss' = [s3 EXCEPT !.rerun = TRUE]
         /\ questionarios' = qs2
         /\ questoes' = IF Strip(arg) # Strip(questoes[pool[idx + 1]].texto)
                        THEN update_questao_texto(questoes, pool[idx + 1], arg)
                        ELSE questoes
         /\ run' = run1
         /\ UNCHANGED <<respostas, oid>>
    ELSE
    LET r == RenderQuestao(s3, pool[idx + 1], qid, ev, arg)
    IN /\ r.recorded => Len(respostas) < MaxRespostas
       /\ respostas' = r.respostas
       /\ questoes' = r.questoes
       /\ oid' = [oid EXCEPT !.questoes = IF r.questoes = questoes THEN @ ELSE @ + 1]
       /\ run' = run1
       /\ IF ev = "next_bottom"
          THEN /\ ss' = [r.s EXCEPT !.idx = Put(@, qid, next_idx), !.rerun = TRUE]
               /\ questionarios' = set_questionario_progress(qs2, qid, pool, next_idx)
          ELSE /\ ss' = KeepWidgets(r.s, {pool[idx + 1]})
               /\ questionarios' = qs2

(* mutant: the shuffle hands every question out twice *)
ShufflesMutRepeat(qid) ==
    LET ids == Range(get_questoes(qid))
    IN {p \o p : p \in Arrangements(ids, Cardinality(ids))}

\* the orders random.shuffle can give to the questions of a questionnaire
Shuffles(qid) ==
    LET ids == Range(get_questoes(qid)) IN Arrangements(ids, Cardinality(ids))

\* the questionnaire a run not caused by the selectbox works on
QidOfRun ==
    IF ss.current_qid \in Praticaveis THEN ss.current_qid ELSE PrimeiroPraticavel

\* the last completed run drew the practice page of QidOfRun
OnPraticar ==
    /\ run.pc = "idle"
    /\ ~ss.rerun
    /\ ss.current_qid \in Praticaveis

\* ... with the navigation buttons (a non-empty pool)
ShowsNav ==
    /\ OnPraticar
    /\ ss.current_qid \in DOMAIN ss.pool
    /\ ss.pool[ss.current_qid] # <<>>

\* ... with the question at the cursor
QuestaoShown ==
    LET p == ss.pool[ss.current_qid] IN p[ss.idx[ss.current_qid] + 1]

ShowsQuestao == ShowsNav /\ QuestaoShown \in DOMAIN questoes

\* any run of the practice page not caused by one of its widgets: entering
\* the page, the rerun a handler asked for, a reload
RunPraticar ==
    /\ run.pc = "idle"
    /\ \E shuffled \in Shuffles(QidOfRun) : PagePraticar("run", NoId, shuffled)
    /\ UNCHANGED <<simulados, bal, sq, peer>>

\* the user picks a questionnaire in the selectbox
SelectQuestionario(qid) ==
    /\ OnPraticar
    /\ qid \in Praticaveis /\ qid # ss.current_qid
    /\ \E shuffled \in Shuffles(qid) : PagePraticar("select", qid, shuffled)
    /\ UNCHANGED <<simulados, bal, sq, peer>>

\* "Resetar resoluções deste questionário"
ResetarResolucoes ==
    /\ OnPraticar
    /\ PagePraticar("reset", NoId, <<>>)
    /\ UNCHANGED <<simulados, bal, sq, peer>>

\* "Questão anterior" (drawn disabled at the first question)
ClickAnterior ==
    /\ ShowsNav
    /\ ss.idx[ss.current_qid] > 0
    /\ PagePraticar("prev_top", NoId, <<>>)
    /\ UNCHANGED <<simulados, bal, sq, peer>>

\* "Próxima questão", at the top or at the bottom of the page (drawn
\* disabled at the last question; the bottom one is drawn after the question)
ClickProxima(botao) ==
    /\ ShowsNav
    /\ ss.idx[ss.current_qid] < Len(ss.pool[ss.current_qid]) - 1
    /\ botao = "next_bottom" => ShowsQuestao
    /\ PagePraticar(botao, NoId, <<>>)
    /\ UNCHANGED <<simulados, bal, sq, peer>>

\* the user sets the radio of a VF question
SelectVF(val) ==
    /\ ShowsQuestao
    /\ questoes[QuestaoShown].tipo = "VF"
    /\ val \in {"Verdadeiro", "Falso"}
    /\ PagePraticar("vf", val, <<>>)
    /\ UNCHANGED <<simulados, bal, sq, peer>>

\* the user presses the button of a letter of an MC question (drawn
\* disabled once the question is answered)
ClickLetra(letra) ==
    /\ ShowsQuestao
    /\ questoes[QuestaoShown].tipo = "MC"
    /\ QuestaoShown \notin DOMAIN ss.answered
    /\ letra \in MCLetras
    /\ PagePraticar("mc", letra, <<>>)
    /\ UNCHANGED <<simulados, bal, sq, peer>>

\* a fresh session over the store init_db and an import leave
InitPractice ==
    /\ StoreWith(MaxQuestoes - 1)
    /\ simulados = Empty
    /\ oid = [questionarios |-> NumQuestionarios + 2,
              questoes |-> MaxQuestoes - 1,
              simulados |-> 0]
    /\ ss = SessionNew
    /\ run = RunIdle
    /\ bal = BalIdle
    /\ sq = SqIdle
    /\ peer = PeerIdle

NextPractice ==
    \/ RunPraticar
    \/ \E qid \in UserQs : SelectQuestionario(qid)
    \/ ResetarResolucoes
    \/ ClickAnterior
    \/ \E botao \in {"next_top", "next_bottom"} : ClickProxima(botao)
    \/ \E val \in {"Verdadeiro", "Falso"} : SelectVF(val)
    \/ \E letra \in MCLetras : ClickLetra(letra)
    \/ CloseSession
    \/ \E qid \in DOMAIN questionarios : DeleteQuestionario(qid)
    \/ \E qid \in UserQs : AddQuestao(qid)

\* one user practising while questions come and go
SpecPractice == InitPractice /\ [][NextPractice]_vars

(***************************************************************************)
(* The answer of page_run_simulado write by write (lines 1691-1701 and     *)
(* 1712-1721): add_simulado_resposta, then update_simulado_progress, then  *)
(* the session flags.  Between the two store calls the process can stop or *)
(* the second call can raise.                                              *)
(***************************************************************************)
\* the run up to and including add_simulado_resposta
SelectAnswerPush(sel) ==
    /\ ShowsQuestion
    /\ CurrentKey \notin DOMAIN ss.result_sim
    /\ sel \in Escolhas(questoes[CurrentKey[2]])
    /\ LET sim_id == ss.current_simulado_id
           sim == simulados[sim_id]
           key == CurrentKey
           q == questoes[key[2]]
           s1 == RestoreAnswered([ss EXCEPT !.rerun = FALSE], key,
                                 LastAnswer(sim.respostas))
           s2 == [s1 EXCEPT !.radio_sim = Put(@, key, sel)]
           is_correct == IsCorrect(q, sel)
       IN /\ ShouldRecord(s2, key, sel)
          /\ simulados' = add_simulado_resposta(simulados, sim_id, key[2],
                                                is_correct, RespostaRaw(q, sel))
          /\ ss' = s2
          /\ run' = [pc |-> "pushed", sim_id |-> sim_id, questao_id |-> key[2],
                     is_correct |-> is_correct,
                     acertos |-> sim.acertos + (IF is_correct THEN 1 ELSE 0)]
    /\ UNCHANGED <<questionarios, questoes, oid, bal, sq, peer, respostas>>

\* update_simulado_progress(acertos=acertos) and the session flags; the
\* Next button was not what caused this run
SelectAnswerFinish ==
    /\ run.pc = "pushed"
    /\ simulados' = update_simulado_progress(simulados, run.sim_id,
                                             [acertos |-> run.acertos])
    /\ ss' = [ss EXCEPT !.result_sim =
                Put(@, <<run.sim_id, run.questao_id>>, run.is_correct)]
    /\ run' = RunIdle
    /\ UNCHANGED <<questionarios, questoes, oid, bal, sq, peer, respostas>>

\* the process stops after add_simulado_resposta: the session is gone
StopAfterPush ==
    /\ run.pc = "pushed"
    /\ ss' = SessionNew
    /\ run' = RunIdle
    /\ UNCHANGED <<questionarios, questoes, simulados, oid, bal, sq, peer, respostas>>

\* update_simulado_progress raises: the run ends there, the flags unset
ProgressWriteFails ==
    /\ run.pc = "pushed"
    /\ run' = RunIdle
    /\ UNCHANGED <<questionarios, questoes, simulados, oid, ss, bal, sq, peer, respostas>>

NextExamCrash ==
    \/ \E sim_id \in DOMAIN simulados : OpenSimulado(sim_id)
    \/ RunSimulado
    \/ \E sel \in {"Verdadeiro", "Falso"} \cup Range(MCLabels) :
          SelectAnswerPush(sel)
    \/ SelectAnswerFinish
    \/ StopAfterPush
    \/ ProgressWriteFails
    \/ ClickNext
    \/ ClickVoltar
    \/ CloseSession
    \/ \E qid \in DOMAIN questionarios : DeleteQuestionario(qid)

\* the session of one persisted exam when store calls can fail and the
\* process can stop between them
SpecExamCrash == InitExamRun /\ [][NextExamCrash]_vars

(***************************************************************************)
(* CSV import: import_csv_to_db, one step per data row                     *)
(***************************************************************************)
\* Bound of the import model: data rows of a file
MaxRows == 2

\* str.upper and str.lower on the cell texts of this model; a text not
\* listed is left as it is
Upper(t) ==
    LET tab == [x \in {"vf", "b", "Alt_B", "zzz"} |->
                  IF x = "vf" THEN "VF" ELSE IF x = "b" THEN "B"
                  ELSE IF x = "Alt_B" THEN "ALT_B" ELSE "ZZZ"]
    IN IF t \in DOMAIN tab THEN tab[t] ELSE t

Lower(t) ==
    LET tab == [x \in {"ALT_B", "Alt_B", "V", "A", "B", "ZZZ"} |->
                  IF x \in {"ALT_B", "Alt_B"} THEN "alt_b"
                  ELSE IF x = "V" THEN "v" ELSE IF x = "A" THEN "a"
                  ELSE IF x = "B" THEN "b" ELSE "zzz"]
    IN IF t \in DOMAIN tab THEN tab[t] ELSE t

\* normalize_bool on a text cell
normalize_bool(val) ==
    Lower(Strip(val)) \in {"v", "true", "t", "1", "sim", "s", "verdadeiro"}

\* parse_alternativas: the cell is given split on "@@"; empty parts are
\* dropped and at most five parts kept
parse_alternativas(parts) ==
    LET kept == SelectSeq(parts, LAMBDA x : Strip(x) # "")
    IN IF Len(kept) > 5 THEN SubSeq(kept, 1, 5) ELSE kept

(* mutant: the answer key is stored without being resolved *)
ResolveLetraMutNoCheck(alternativas, correta) == Strip(Upper(correta))

\* add_questao_mc, lines 304-314: the letter the answer key resolves to,
\* "" when the function raises
ResolveLetra(alternativas, correta) ==
    LET correta_letra == Strip(Upper(correta))
        letras_validas == {Letras[j] : j \in 1..Len(alternativas)}
        hits == {j \in 1..Len(alternativas) :
                    Lower(Strip(alternativas[j])) = Lower(Strip(correta_letra))}
    IN IF correta_letra \in letras_validas THEN correta_letra
       ELSE IF hits = {} THEN ""
       ELSE Letras[CHOOSE j \in hits : \A k \in hits : j <= k]

\* the value csv.DictReader gives the cells a short row does not have (None)
Missing == "<None>"

\* a cell text with a carriage return in it
BareCR == "T<CR>9"

\* the data rows a file of this model is made of
CsvRow(tipo, questionario, texto, correta, alternativas) ==
    [tipo |-> tipo, questionario |-> questionario, texto |-> texto,
     correta |-> correta, alternativas |-> alternativas]

CsvRows ==
    {CsvRow(" vf ", "Q1", "T7", "V", <<>>),
     CsvRow("VF", " N1 ", "T8", "x", <<>>),
     CsvRow("MC", "N1", "T9", "b", <<"alt_a", "", "alt_b">>),
     CsvRow("MC", "Q1", "T7", "Alt_B", <<"alt_a", "alt_b">>),
     CsvRow("MC", "N1", "T8", "A", <<"alt_a">>),
     CsvRow("MC", "N2", "T9", "zzz", <<"alt_a", "alt_b">>),
     CsvRow("XX", "N2", "T7", "V", <<>>),
     CsvRow("VF", "N2", "", "V", <<>>),
     CsvRow("VF", "", "T8", "V", <<>>),
     CsvRow("VF", "n1", "T8", "V", <<>>),
     CsvRow("MC", "N2", "T8", "E",
            <<"alt_a", "alt_b", "alt_c", "alt_d", "alt_e", "alt_f">>),
     CsvRow("VF", "Q1", Missing, Missing, <<>>),
     CsvRow("VF", "Q1", BareCR, "V", <<>>)}

\* line 735, the for statement: csv.reader raises csv.Error while it reads
\* a row with a carriage return inside an unquoted field (or a field above
\* the field size limit); the exception leaves import_csv_to_db
ReaderRaises(row) == row.texto = BareCR

RequiredColumns == {"tipo", "questionario", "texto", "correta"}

\* the files: a header with or without the column "correta", and up to
\* MaxRows data rows
CsvFiles ==
    {[fieldnames |-> h, rows |-> r] :
        h \in {RequiredColumns \cup {"alternativas"},
               {"tipo", "questionario", "texto", "alternativas"}},
        r \in UNION {[1..n -> CsvRows] : n \in 0..MaxRows}}

(* mutant: the lookup by name finds nothing *)
get_questionario_by_nameMutNotFound(qs, nome) == NoId

\* get_questionario_by_name: the id of a questionnaire of that name
\* (find_one gives the first inserted), NoId when there is none
get_questionario_by_name(qs, nome) ==
    LET hits == {id \in DOMAIN qs : qs[id].nome = nome}
    IN IF hits = {} THEN NoId
       ELSE CHOOSE id \in hits : \A k \in hits : id <= k

\* lines 715-733: the header is read; a missing required column raises
ImportStart ==
    /\ run.pc = "call"
    /\ run' = IF RequiredColumns \subseteq run.file.fieldnames
              THEN [pc |-> "rows", reset_qid |-> NoId, rows |-> run.file.rows,
                    i |-> 2, ok |-> 0, erros |-> <<>>]
              ELSE [pc |-> "raised", reset_qid |-> NoId, at |-> "header"]
    /\ UNCHANGED <<questionarios, questoes, simulados, respostas, oid, ss, bal, sq, peer>>

\* lines 736-763: one pass of the loop over the data rows
ImportRow ==
    /\ run.pc = "rows"
    /\ run.i - 1 <= Len(run.rows)
    /\ LET row == run.rows[run.i - 1]
           tipo == Upper(Strip(row.tipo))
           questionario == IF Strip(row.questionario) = "" THEN "Sem Título"
                           ELSE Strip(row.questionario)
           texto == Strip(row.texto)
           correta == Strip(row.correta)
           fail(msg) == [run EXCEPT !.i = @ + 1,
                                    !.erros = Append(@, [linha |-> run.i, msg |-> msg])]
           done == [run EXCEPT !.i = @ + 1, !.ok = @ + 1]
       IN
       IF ReaderRaises(row)
       THEN /\ run' = [pc |-> "raised", reset_qid |-> NoId, at |-> "row",
                       i |-> run.i, linhas |-> Len(run.rows)]
            /\ UNCHANGED <<questionarios, questoes, oid>>
       ELSE IF Missing \in {row.questionario, row.texto, row.correta}
       THEN /\ run' = fail("'NoneType' object has no attribute 'strip'")
            /\ UNCHANGED <<questionarios, questoes, oid>>
       ELSE IF texto = ""
       THEN /\ run' = fail("Texto da questão vazio.")
            /\ UNCHANGED <<questionarios, questoes, oid>>
       ELSE
       LET found == get_questionario_by_name(questionarios, questionario)
           qid == IF found # NoId THEN found ELSE oid.questionarios + 1
           qs1 == IF found # NoId THEN questionarios
                  ELSE Put(questionarios, qid,
                           QuestionarioDoc(questionario, "Sem Disciplina"))
           oid1 == IF found # NoId THEN oid ELSE [oid EXCEPT !.questionarios = qid]
           new_id == oid.questoes + 1
           alternativas == parse_alternativas(row.alternativas)
           letra == ResolveLetra(alternativas, correta)
       IN
       /\ questionarios' = qs1
       /\ IF tipo = "VF"
          THEN /\ questoes' = Put(questoes, new_id,
                     [questionario_id |-> qid, tipo |-> "VF", texto |-> texto,
                      ops |-> <<>>,
                      correta_text |-> IF normalize_bool(correta) THEN "V" ELSE "F"])
               /\ oid' = [oid1 EXCEPT !.questoes = new_id]
               /\ run' = done
          ELSE IF tipo = "MC"
          THEN IF Len(alternativas) < 2
               THEN /\ run' = fail("Questão MC requer ao menos 2 alternativas.")
                    /\ questoes' = questoes
                    /\ oid' = oid1
               ELSE IF letra = ""
               THEN /\ run' = fail("Resposta correta inválida para questão MC.")
                    /\ questoes' = questoes
                    /\ oid' = oid1
               ELSE /\ questoes' = Put(questoes, new_id,
                          [questionario_id |-> qid, tipo |-> "MC", texto |-> texto,
                           ops |-> alternativas, correta_text |-> letra])
                    /\ oid' = [oid1 EXCEPT !.questoes = new_id]
                    /\ run' = done
          ELSE /\ run' = fail("tipo deve ser 'VF' ou 'MC'.")
               /\ questoes' = questoes
               /\ oid' = oid1
    /\ UNCHANGED <<simulados, respostas, ss, bal, sq, peer>>

\* line 766: return ok, erros
ImportReturn ==
    /\ run.pc = "rows"
    /\ run.i - 1 > Len(run.rows)
    /\ run' = [pc |-> "imported", reset_qid |-> NoId,
               ok |-> run.ok, erros |-> run.erros, linhas |-> Len(run.rows)]
    /\ UNCHANGED <<questionarios, questoes, simulados, respostas, oid, ss, bal, sq, peer>>

\* import_csv_to_db is called with any of the files
InitCsv ==
    /\ StoreWith(1)
    /\ simulados = Empty
    /\ oid = [questionarios |-> NumQuestionarios + 2, questoes |-> 1, simulados |-> 0]
    /\ ss = SessionNew
    /\ \E f \in CsvFiles : run = [pc |-> "call", reset_qid |-> NoId, file |-> f]
    /\ bal = BalIdle
    /\ sq = SqIdle
    /\ peer = PeerIdle

NextCsv == ImportStart \/ ImportRow \/ ImportReturn

SpecCsv == InitCsv /\ [][NextCsv]_vars

InitAlloc ==
    /\ StoreEmpty
    /\ ss = SessionNew
    /\ run = RunIdle
    /\ bal \in {BalCall(inp) : inp \in AllocInputs}
    /\ sq = SqIdle
    /\ peer = PeerIdle

NextAlloc == BalStart \/ BalLoop \/ BalReturn

SpecAlloc == InitAlloc /\ [][NextAlloc]_vars

InitAllocHuge ==
    /\ StoreEmpty
    /\ ss = SessionNew
    /\ run = RunIdle
    /\ bal \in {BalCall(inp) : inp \in HugeInputs}
    /\ sq = SqIdle
    /\ peer = PeerIdle

SpecAllocHuge == InitAllocHuge /\ [][NextAlloc]_vars

(***************************************************************************)
(* streamlit_app.py (SQLite): page_simulado and page_run_simulado          *)
(***************************************************************************)
\* bound on the correct-count the exam run is followed to
MaxSqAcertos == 4

\* the rows of the questoes table
SqQuestoes == 1..(MaxQuestoes + 1)

\* st.radio without index: the first option is selected on the first render
SqRadioDefault(q) == IF q.tipo = "VF" THEN "Verdadeiro" ELSE MCLabels[1]

\* lines 591-594 and 602-604
SqIsCorrect(q, escolha) ==
    IF q.tipo = "VF"
    THEN LET gabarito == (q.correta_text = "V")
             user == (escolha = "Verdadeiro")
         IN gabarito = user
    ELSE SplitLetra(escolha) = q.correta_text

\* one script run of page_run_simulado over the session s; sel is the radio
\* option the user has just picked (Keep: none), clicked the button pressed
SqPageRunSimulado(s, sel, clicked) ==
    LET pool == s.simulado_pool
        idx == s.simulado_idx
        acertos == s.simulado_acertos
    IN IF idx >= Len(pool)
       THEN IF clicked = "voltar"
            THEN [s EXCEPT !.mode = "none", !.rerun = TRUE]
            ELSE [s EXCEPT !.rerun = FALSE]
       ELSE LET qid == pool[idx + 1]
                q == QuestaoDoc(qid)
                escolha == IF sel # Keep THEN sel
                           ELSE IF qid \in DOMAIN s.radio_sim
                                THEN s.radio_sim[qid]
                                ELSE SqRadioDefault(q)
                s1 == [s EXCEPT !.radio_sim = Put(@, qid, escolha)]
                s2 == IF qid \notin DOMAIN s1.result_sim
                      THEN [s1 EXCEPT !.result_sim =
                                Put(@, qid, SqIsCorrect(q, escolha))]
                      ELSE s1
                s3 == IF s2.result_sim[qid]
                      THEN [s2 EXCEPT !.simulado_acertos = acertos + 1]
                      ELSE s2
            IN IF clicked = "proxima"
               THEN [s3 EXCEPT !.simulado_idx = idx + 1,
                               !.result_sim = Drop(@, {qid}),
                               !.radio_sim = Drop(@, {qid}),
                               !.rerun = TRUE]
               ELSE [s3 EXCEPT !.rerun = FALSE]

SqOnExamPage == sq.mode = "run_simulado" /\ ~sq.rerun

SqShowsQuestion == SqOnExamPage /\ sq.simulado_idx < Len(sq.simulado_pool)

SqFrame == UNCHANGED <<questionarios, questoes, simulados, respostas, oid,
                       ss, run, bal, peer>>

\* "Iniciar Simulado": n questions of the selected questionnaires in random
\* order
SqIniciarSimulado(pool) ==
    /\ sq.mode # "run_simulado"
    /\ ~sq.rerun
    /\ sq' = [sq EXCEPT !.simulado_pool = pool,
                        !.simulado_idx = 0,
                        !.simulado_acertos = 0,
                        !.mode = "run_simulado",
                        !.rerun = TRUE]
    /\ SqFrame

\* the script run that st.rerun() asked for
SqRunSimulado ==
    /\ sq.rerun
    /\ sq' = IF sq.mode = "run_simulado"
             THEN SqPageRunSimulado(sq, Keep, "none")
             ELSE [sq EXCEPT !.rerun = FALSE]
    /\ sq'.simulado_acertos <= MaxSqAcertos
    /\ SqFrame

\* the user picks another option of the radio
SqSelectAnswer(sel) ==
    /\ SqShowsQuestion
    /\ LET qid == sq.simulado_pool[sq.simulado_idx + 1]
       IN /\ sel \in Escolhas(QuestaoDoc(qid))
          /\ sel # sq.radio_sim[qid]
    /\ sq' = SqPageRunSimulado(sq, sel, "none")
    /\ sq'.simulado_acertos <= MaxSqAcertos
    /\ SqFrame

\* "Próxima ▶"
SqClickProxima ==
    /\ SqShowsQuestion
    /\ sq' = SqPageRunSimulado(sq, Keep, "proxima")
    /\ sq'.simulado_acertos <= MaxSqAcertos
    /\ SqFrame

\* "Voltar aos simulados" on the final page
SqClickVoltar ==
    /\ SqOnExamPage
    /\ sq.simulado_idx >= Len(sq.simulado_pool)
    /\ sq' = SqPageRunSimulado(sq, Keep, "voltar")
    /\ SqFrame

InitSqlExam ==
    /\ StoreEmpty
    /\ ss = SessionNew
    /\ run = RunIdle
    /\ bal = BalIdle
    /\ sq = SqIdle
    /\ peer = PeerIdle

NextSqlExam ==
    \/ \E S \in SUBSET SqQuestoes : \E m \in 1..Cardinality(S) :
          \E pool \in Arrangements(S, m) : SqIniciarSimulado(pool)
    \/ SqRunSimulado
    \/ \E sel \in {"Verdadeiro", "Falso"} \cup Range(MCLabels) :
          SqSelectAnswer(sel)
    \/ SqClickProxima
    \/ SqClickVoltar

SpecSqlExam == InitSqlExam /\ [][NextSqlExam]_vars

(***************************************************************************)
(* Practice over a store whose questions can also disappear one by one     *)
(***************************************************************************)
\* a question leaves the store while its questionnaire stays: the case the
\* validation of the saved pool (lines 1271-1273) and get_questao_by_id
\* returning None allow for; the app has no handler that does it, the
\* store is shared with whoever administers the database
RemoveQuestao(id) ==
    /\ run.pc = "idle"
    /\ id \in DOMAIN questoes
    /\ questoes' = Drop(questoes, {id})
    /\ UNCHANGED <<questionarios, simulados, respostas, oid, ss, run, bal,
                   sq, peer>>

NextResume ==
    \/ RunPraticar
    \/ ClickAnterior
    \/ \E botao \in {"next_top", "next_bottom"} : ClickProxima(botao)
    \/ \E val \in {"Verdadeiro", "Falso"} : SelectVF(val)
    \/ \E letra \in MCLetras : ClickLetra(letra)
    \/ CloseSession
    \/ \E qid \in UserQs : AddQuestao(qid)
    \/ \E id \in DOMAIN questoes : RemoveQuestao(id)

\* one user practising the first questionnaire while single questions come
\* and go
SpecResume == InitPractice /\ [][NextResume]_vars

(***************************************************************************)
(* Two browser sessions over the same store                                *)
(***************************************************************************)
\* the script runs of the two sessions interleave: from here on the other
\* session's runs are the ones that happen (ss is the state of the session
\* whose turn it is, peer.ss that of the one that waits)
SwitchSession ==
    /\ run.pc = "idle"
    /\ ss' = peer.ss
    /\ peer' = [turn |-> 3 - peer.turn, ss |-> ss]
    /\ UNCHANGED <<questionarios, questoes, simulados, respostas, oid, run,
                   bal, sq>>

NextTwoSessions ==
    \/ RunPraticar
    \/ ClickAnterior
    \/ \E botao \in {"next_top", "next_bottom"} : ClickProxima(botao)
    \/ CloseSession
    \/ \E qid \in UserQs : AddQuestao(qid)
    \/ SwitchSession

\* two sessions practising over one store while questions are added
SpecTwoSessions == InitPractice /\ [][NextTwoSessions]_vars

(***************************************************************************)
(* Performance of a questionnaire: _last_correct_map and                   *)
(* desempenho_questionario over answer events with their respondido_em     *)
(***************************************************************************)
\* bound on the answer events of the store
MaxEventos == 3

\* readings of the clocks the events are stamped with, as <<second,
\* microsecond>>: the same instant can be read twice, and an event can be
\* inserted after one that carries a later reading
Clock == {<<0, 0>>, <<0, 1>>, <<1, 0>>}

\* datetime.isoformat() of a reading, as character codes: the seconds, then
\* "+" (43) when the microsecond is 0 and "." (46), the microseconds, "+"
\* otherwise; digits are 48 + d
Iso(t) ==
    <<48 + t[1]>> \o (IF t[2] = 0 THEN <<43>> ELSE <<46, 48 + t[2], 43>>)

RECURSIVE StrLess(_, _)
\* a < b on Python strings
StrLess(a, b) ==
    IF b = <<>> THEN FALSE
    ELSE IF a = <<>> THEN TRUE
    ELSE IF a[1] # b[1] THEN a[1] < b[1]
    ELSE StrLess(Tail(a), Tail(b))

\* x.get("respondido_em", "")
RespondidoEm(r) ==
    IF "respondido_em" \in DOMAIN r THEN r.respondido_em ELSE <<>>

\* the sequence without its i-th element
RemoveAt(s, i) == SubSeq(s, 1, i - 1) \o SubSeq(s, i + 1, Len(s))

(* mutant: the events are taken in insertion order *)
SortedByRespondidoEmMutUnsorted(rs) == rs

RECURSIVE SortedByRespondidoEm(_)
\* sorted(respostas, key=respondido_em): stable, so events with equal keys
\* keep the order they have in the list
SortedByRespondidoEm(rs) ==
    IF rs = <<>> THEN <<>>
    ELSE LET i == CHOOSE i \in DOMAIN rs :
                    /\ \A j \in DOMAIN rs :
                          ~StrLess(RespondidoEm(rs[j]), RespondidoEm(rs[i]))
                    /\ \A j \in 1..(i - 1) :
                          RespondidoEm(rs[j]) # RespondidoEm(rs[i])
         IN <<rs[i]>> \o SortedByRespondidoEm(RemoveAt(rs, i))

\* the greatest element of a non-empty set of numbers
MaxOf(S) == CHOOSE x \in S : \A y \in S : y <= x

\* _last_correct_map: questao_id -> whether the last event of the sorted
\* list for that question is correct (each assignment overwrites the one
\* before)
last_correct_map(rs) ==
    LET sorted == SortedByRespondidoEm(rs)
        last(x) == MaxOf({i \in DOMAIN sorted : sorted[i].questao_id = x})
    IN [x \in {rs[i].questao_id : i \in DOMAIN rs} |->
           sorted[last(x)].correto # 0]

(* mutant: the total is the number of answer events, as in streamlit_app.py *)
desempenho_questionario_MutCountEvents(questionario_id) ==
    LET rs == SelectSeq(respostas,
                        LAMBDA r : r.questionario_id = questionario_id)
        last_map == last_correct_map(rs)
    IN [total |-> Len(rs),
        acertos |-> Cardinality({x \in DOMAIN last_map : last_map[x]}),
        last_map |-> last_map]

(* mutant: acertos counts the correct events, not the questions whose
   latest event is correct *)
desempenho_questionario_MutCorrectEvents(questionario_id) ==
    LET total == Cardinality({id \in DOMAIN questoes :
                     questoes[id].questionario_id = questionario_id})
        rs == SelectSeq(respostas,
                        LAMBDA r : r.questionario_id = questionario_id)
    IN [total |-> total,
        acertos |-> Len(SelectSeq(rs, LAMBDA r : r.correto # 0)),
        last_map |-> last_correct_map(rs)]

\* desempenho_questionario: total and acertos (perc is their quotient), and
\* the map acertos is counted from
desempenho_questionario(questionario_id) ==
    LET total == Cardinality({id \in DOMAIN questoes :
                     questoes[id].questionario_id = questionario_id})
        rs == SelectSeq(respostas,
                        LAMBDA r : r.questionario_id = questionario_id)
        last_map == last_correct_map(rs)
    IN [total |-> total,
        acertos |-> Cardinality({x \in DOMAIN last_map : last_map[x]}),
        last_map |-> last_map]

\* respondidas_questionario: the distinct questions among the events of the
\* questionnaire
respondidas_questionario(questionario_id) ==
    Cardinality({respostas[j].questao_id :
                   j \in {k \in DOMAIN respostas :
                            respostas[k].questionario_id = questionario_id}})

\* perc = (acertos/total)*100 if total > 0 else 0.0, as the whole number
\* int(perc) that show_desempenho_block hands to st.progress (for the totals
\* of this model the float quotient truncates to the integer quotient)
PercInt(total, acertos) ==
    IF total > 0 THEN (acertos * 100) \div total ELSE 0

\* save_resposta: the document inserted, with its timestamp
RespostaDoc(questionario_id, questao_id, correto, agora) ==
    [questionario_id |-> questionario_id,
     questao_id |-> questao_id,
     correto |-> IF correto THEN 1 ELSE 0,
     respondido_em |-> Iso(agora)]

\* the answer events that can be stored for the questions of the store
Eventos ==
    {RespostaDoc(questoes[id].questionario_id, id, c, t) :
        id \in DOMAIN questoes, c \in BOOLEAN, t \in Clock}

RECURSIVE SeqsUpTo(_, _)
\* the sequences over S of length at most n
SeqsUpTo(S, n) ==
    IF n = 0 THEN {<<>>}
    ELSE LET shorter == SeqsUpTo(S, n - 1)
         IN shorter \cup {Append(s, x) : s \in shorter, x \in S}

\* show_desempenho_block: the figures drawn for a questionnaire
ShowDesempenho(qid) ==
    /\ qid \in DOMAIN questionarios
    /\ run' = [pc |-> "desempenho", reset_qid |-> NoId, qid |-> qid,
               ret |-> desempenho_questionario(qid)]
    /\ UNCHANGED <<questionarios, questoes, simulados, respostas, oid, ss,
                   bal, sq, peer>>

\* a store with questions in the first questionnaire and any history of
\* answer events
InitDesempenho ==
    /\ questionarios =
          [id \in 1..(NumQuestionarios + 2) |->
             IF id = FavoritosId THEN QuestionarioDoc("Favoritos", "Sistema")
             ELSE IF id = ErrosId THEN QuestionarioDoc("Caderno de Erros", "Sistema")
             ELSE QuestionarioDoc(NomeDe(id), "Sem Disciplina")]
    /\ questoes = [id \in 1..MaxQuestoes |->
                      [QuestaoDoc(id) EXCEPT !.questionario_id = 1]]
    /\ simulados = Empty
    /\ respostas \in SeqsUpTo(Eventos, MaxEventos)
    /\ oid = [questionarios |-> NumQuestionarios + 2,
              questoes |-> MaxQuestoes,
              simulados |-> 0]
    /\ ss = SessionNew
    /\ run = RunIdle
    /\ bal = BalIdle
    /\ sq = SqIdle
    /\ peer = PeerIdle

NextDesempenho == \E qid \in DOMAIN questionarios : ShowDesempenho(qid)

SpecDesempenho == InitDesempenho /\ [][NextDesempenho]_vars

(***************************************************************************)
(* streamlit_app.py (SQLite): page_praticar, render_questao and            *)
(* desempenho_questionario                                                 *)
(***************************************************************************)
\* bound on the rows of the respostas table
MaxSqRespostas == 3

\* the questionnaire practised: it owns every row of the questoes table
SqQid == 1

\* get_questoes(qid), shuffled
SqShuffles == Arrangements(SqQuestoes, Cardinality(SqQuestoes))

\* save_resposta: INSERT INTO respostas
SqSaveResposta(rs, questionario_id, questao_id, correto) ==
    Append(rs, [questionario_id |-> questionario_id,
                questao_id |-> questao_id,
                correto |-> IF correto THEN 1 ELSE 0])

\* desempenho_questionario: COUNT(*) and SUM(correto = 1) over the rows of
\* the questionnaire
SqDesempenho(rs, questionario_id) ==
    LET rows == SelectSeq(rs, LAMBDA r : r.questionario_id = questionario_id)
    IN [total |-> Len(rows),
        acertos |-> Len(SelectSeq(rows, LAMBDA r : r.correto = 1))]

\* one script run of page_praticar over the SQLite state s; sel is the radio
\* option just picked (Keep: none), clicked the button pressed, shuffled
\* what random.shuffle gives if it is called
SqPagePraticar(s, sel, clicked, shuffled) ==
    LET qid == SqQid
        s0 == [s EXCEPT !.rerun = FALSE, !.current_qid = qid]
        s1 == IF qid \in DOMAIN s0.pool THEN s0
              ELSE [s0 EXCEPT !.pool = Put(@, qid, shuffled)]
        pool == s1.pool[qid]
    IN IF pool = <<>>
       THEN IF clicked = "reiniciar"
            THEN [s1 EXCEPT !.pool = Put(@, qid, shuffled),
                            !.result = Empty,
                            !.radio = Empty,
                            !.rerun = TRUE]
            ELSE [s1 EXCEPT !.radio = Empty]
       ELSE LET current_qid == pool[Len(pool)]
                q == QuestaoDoc(current_qid)
                escolha == IF sel # Keep THEN sel
                           ELSE IF current_qid \in DOMAIN s1.radio
                                THEN s1.radio[current_qid]
                                ELSE SqRadioDefault(q)
                s2 == [s1 EXCEPT !.radio = Put(Empty, current_qid, escolha)]
                is_correct == SqIsCorrect(q, escolha)
                s3 == IF current_qid \notin DOMAIN s2.result
                      THEN [s2 EXCEPT
                              !.result = Put(@, current_qid, is_correct),
                              !.respostas = SqSaveResposta(@, qid, current_qid,
                                                           is_correct)]
                      ELSE s2
            IN IF clicked = "proxima"
               THEN [s3 EXCEPT !.pool = Put(@, qid, SubSeq(pool, 1, Len(pool) - 1)),
                               !.result = Drop(@, {current_qid}),
                               !.radio = Drop(@, {current_qid}),
                               !.rerun = TRUE]
               ELSE s3

\* the last completed run drew the practice page
SqOnPraticar == sq.current_qid = SqQid /\ ~sq.rerun /\ sq.mode # "run_simulado"

SqShowsQuestao ==
    /\ SqOnPraticar
    /\ SqQid \in DOMAIN sq.pool
    /\ sq.pool[SqQid] # <<>>

\* entering the page, a reload, or the rerun a handler asked for
SqRunPraticar ==
    /\ sq.mode # "run_simulado"
    /\ \E shuffled \in SqShuffles : sq' = SqPagePraticar(sq, Keep, "none", shuffled)
    /\ Len(sq'.respostas) <= MaxSqRespostas
    /\ SqFrame

\* the user picks another option of the radio of the question shown
SqSelectRadio(sel) ==
    /\ SqShowsQuestao
    /\ LET current_qid == sq.pool[SqQid][Len(sq.pool[SqQid])]
       IN /\ sel \in Escolhas(QuestaoDoc(current_qid))
          /\ current_qid \in DOMAIN sq.radio
          /\ sel # sq.radio[current_qid]
    /\ sq' = SqPagePraticar(sq, sel, "none", <<>>)
    /\ Len(sq'.respostas) <= MaxSqRespostas
    /\ SqFrame

\* "Próxima questão ▶"
SqProximaQuestao ==
    /\ SqShowsQuestao
    /\ sq' = SqPagePraticar(sq, Keep, "proxima", <<>>)
    /\ Len(sq'.respostas) <= MaxSqRespostas
    /\ SqFrame

\* "Reiniciar" on the page of an exhausted pool
SqReiniciar ==
    /\ SqOnPraticar
    /\ SqQid \in DOMAIN sq.pool
    /\ sq.pool[SqQid] = <<>>
    /\ \E shuffled \in SqShuffles :
          sq' = SqPagePraticar(sq, Keep, "reiniciar", shuffled)
    /\ SqFrame

\* the browser session ends; the next one starts without session keys
SqCloseSession ==
    /\ sq' = [SqIdle EXCEPT !.respostas = sq.respostas]
    /\ SqFrame

NextSqlPratica ==
    \/ SqRunPraticar
    \/ \E sel \in {"Verdadeiro", "Falso"} \cup Range(MCLabels) :
          SqSelectRadio(sel)
    \/ SqProximaQuestao
    \/ SqReiniciar
    \/ SqCloseSession

SpecSqlPratica == InitSqlExam /\ [][NextSqlPratica]_vars

(***************************************************************************)
(* Practice and exam assembly in one session: the wrong answers of         *)
(* render_questao copy their question into 'Caderno de Erros' (line 590),  *)
(* and page_simulado (lines 1578-1607) then offers every questionnaire but *)
(* 'Favoritos' for an exam.                                                *)
(***************************************************************************)
NextAssemble ==
    \/ RunPraticar
    \/ \E botao \in {"next_top", "next_bottom"} : ClickProxima(botao)
    \/ \E val \in {"Verdadeiro", "Falso"} : SelectVF(val)
    \/ \E letra \in MCLetras : ClickLetra(letra)
    \/ CloseSession
    \/ \E qid \in UserQs : AddQuestao(qid)
    \/ \E qids \in SUBSET Selectable, m \in 1..MaxQuestoes :
          \E pool_ids \in get_random_questoes(qids, m) :
             CreateSimuladoDirect(qids, m, pool_ids)
    \/ \E sim_id \in DOMAIN simulados : DeleteSimulado(sim_id)

\* one user practising and then assembling exams
SpecAssemble == InitPractice /\ [][NextAssemble]_vars

(***************************************************************************)
(* The practice page and the page of a running exam in one session: the    *)
(* sidebar of main (lines 1774-1789) lets the user go from one to the      *)
(* other at any time, and both evaluate the answers to the same questions. *)
(***************************************************************************)
NextFlows ==
    \/ \E sim_id \in DOMAIN simulados : OpenSimulado(sim_id)
    \/ RunSimulado
    \/ \E sel \in {"Verdadeiro", "Falso", Placeholder} \cup Range(MCLabels) :
          SelectAnswer(sel)
    \/ ClickNext
    \/ RunPraticar
    \/ \E qid \in UserQs : SelectQuestionario(qid)
    \/ \E val \in {"Verdadeiro", "Falso"} : SelectVF(val)
    \/ \E letra \in MCLetras : ClickLetra(letra)
    \/ CloseSession

\* one user answering the same questions in practice and in an exam
SpecFlows == InitExamRun /\ [][NextFlows]_vars

(***************************************************************************)
(* A user who stays on the page of the running exam and keeps pressing     *)
(* "Próxima" while questions are deleted from the dashboard of another     *)
(* tab.  st.rerun() (lines 1669 and 1756) makes Streamlit run the script   *)
(* again, so a pending run of the page does happen (weak fairness on       *)
(* RunSimulado, which includes the skip of a missing question); the user   *)
(* presses the button whenever it stays on the screen (weak fairness on    *)
(* ClickNext).                                                             *)
(***************************************************************************)
NextExamLive ==
    \/ RunSimulado
    \/ \E sel \in {"Verdadeiro", "Falso", Placeholder} \cup Range(MCLabels) :
          SelectAnswer(sel)
    \/ ClickNext
    \/ \E qid \in DOMAIN questionarios : DeleteQuestionario(qid)

SpecExamLive ==
    /\ InitExamRun
    /\ [][NextExamLive]_vars
    /\ WF_vars(RunSimulado)
    /\ WF_vars(ClickNext)

(***************************************************************************)
(* page_dashboard: the statistics _bulk_stats aggregates on the server     *)
(***************************************************************************)
\* the orders in which the {"$sort": {"respondido_em": 1}} stage can hand
\* the events rs on: every arrangement of rs that does not descend in
\* respondido_em.  The server gives no order among events with equal keys,
\* so each of these can be the one delivered.
SortStageOutcomes(rs) ==
    {[i \in DOMAIN rs |-> rs[p[i]]] :
        p \in {f \in [DOMAIN rs -> DOMAIN rs] :
                 /\ \A i, j \in DOMAIN rs : i # j => f[i] # f[j]
                 /\ \A i, j \in DOMAIN rs :
                       i < j => ~StrLess(RespondidoEm(rs[f[j]]),
                                         RespondidoEm(rs[f[i]]))}}

\* the events the {"$match": {"questionario_id": {"$in": oids}}} stage keeps
MatchStage(questionario_ids) ==
    SelectSeq(respostas, LAMBDA r : r.questionario_id \in questionario_ids)

\* _bulk_stats, given the order sorted in which the sort stage delivered the
\* matched events: per questionnaire the number of its questions, the number
\* of (questionnaire, question) groups and the number of groups whose $last
\* correto is 1
bulk_stats(questionario_ids, sorted) ==
    [qid \in questionario_ids |->
       LET total == Cardinality({id \in DOMAIN questoes :
                        questoes[id].questionario_id = qid})
           groups == {sorted[i].questao_id :
                        i \in {k \in DOMAIN sorted :
                                 sorted[k].questionario_id = qid}}
           last(x) == MaxOf({i \in DOMAIN sorted :
                               /\ sorted[i].questionario_id = qid
                               /\ sorted[i].questao_id = x})
       IN [total |-> total,
           respondidas |-> Cardinality(groups),
           corretas |-> Cardinality({x \in groups :
                                       sorted[last(x)].correto = 1})]]

\* page_dashboard with "Todas (resumo)" chosen and a search that keeps the
\* questionnaires filtrados: the pinned statistics of the Caderno de Erros
\* and one aggregation for the questionnaires kept
page_dashboard(filtrados) ==
    /\ filtrados # {}
    /\ \E sorted_erros \in SortStageOutcomes(MatchStage({ErrosId})),
          sorted_qs \in SortStageOutcomes(MatchStage(filtrados)) :
          run' = [pc |-> "painel", reset_qid |-> NoId,
                  stats_erros |-> bulk_stats({ErrosId}, sorted_erros)[ErrosId],
                  stats |-> bulk_stats(filtrados, sorted_qs)]
    /\ UNCHANGED <<questionarios, questoes, simulados, respostas, oid, ss,
                   bal, sq, peer>>

NextPainel == \E filtrados \in SUBSET UserQs : page_dashboard(filtrados)

SpecPainel == InitDesempenho /\ [][NextPainel]_vars

(***************************************************************************)
(* The Caderno de Erros under imports, wrong answers, text edits and       *)
(* popular_caderno_erros                                                   *)
(***************************************************************************)
\* the data rows of the files imported here: a question whose questionnaire
\* column names the notebook
ErrosRows == {CsvRow("VF", "Caderno de Erros", "T1", "V", <<>>)}

ErrosFiles ==
    {[fieldnames |-> RequiredColumns \cup {"alternativas"}, rows |-> r] :
        r \in UNION {[1..n -> ErrosRows] : n \in 0..MaxRows}}

\* the texts the text area of the edit form is filled with
EditTextos == {"T1"}

\* "Salvar enunciado + gabarito" of the question shown on the practice page
SalvarEnunciado(novo_texto) ==
    /\ ShowsQuestao
    /\ PagePraticar("edit", novo_texto, <<>>)
    /\ UNCHANGED <<simulados, bal, sq, peer>>

RECURSIVE FirstSeen(_)
\* the keys of the dict _last_correct_map builds, in the order they were
\* first assigned: the question ids of the sorted events, first occurrences
FirstSeen(sorted) ==
    IF sorted = <<>> THEN <<>>
    ELSE LET front == FirstSeen(SubSeq(sorted, 1, Len(sorted) - 1))
             x == sorted[Len(sorted)].questao_id
         IN IF x \in Range(front) THEN front ELSE Append(front, x)

RECURSIVE PopularLoop(_, _, _, _, _)
\* popular_caderno_erros lines 642-664: the questions after the loop over
\* last_map.items(); a question whose last answer is wrong is copied into
\* the notebook unless the notebook holds its texto at that moment
PopularLoop(keys, last_map, erros, qs, next_id) ==
    IF keys = <<>> THEN qs
    ELSE LET x == Head(keys)
             copia == /\ ~last_map[x]
                      /\ x \in DOMAIN qs
                      /\ ~\E e \in DOMAIN qs :
                            /\ qs[e].questionario_id = erros
                            /\ qs[e].texto = qs[x].texto
         IN IF copia
            THEN PopularLoop(Tail(keys), last_map, erros,
                             Put(qs, next_id,
                                 [qs[x] EXCEPT !.questionario_id = erros]),
                             next_id + 1)
            ELSE PopularLoop(Tail(keys), last_map, erros, qs, next_id)

\* popular_caderno_erros: the questions after the call
popular_caderno_erros ==
    LET erros == CHOOSE e \in DOMAIN questionarios :
                    questionarios[e].nome = "Caderno de Erros"
    IN PopularLoop(FirstSeen(SortedByRespondidoEm(respostas)),
                   last_correct_map(respostas), erros, questoes,
                   oid.questoes + 1)

\* page_dashboard, "Atualizar Caderno de Erros com histórico"
AtualizarCadernoErros ==
    /\ run.pc = "idle"
    /\ ~ss.rerun
    /\ questoes' = popular_caderno_erros
    /\ oid' = [oid EXCEPT !.questoes =
                  @ + Cardinality(DOMAIN questoes') - Cardinality(DOMAIN questoes)]
    /\ ss' = [ss EXCEPT !.rerun = PageOpen]
    /\ UNCHANGED <<questionarios, simulados, respostas, run, bal, sq, peer>>

\* the user leaves the import page once the import has reported
LeaveImportar ==
    /\ run.pc = "imported"
    /\ run' = RunIdle
    /\ UNCHANGED <<questionarios, questoes, simulados, respostas, oid, ss,
                   bal, sq, peer>>

\* the store init_db and an earlier import left, a fresh session, and
\* import_csv_to_db called with one of the files
InitErros ==
    /\ StoreWith(MaxQuestoes)
    /\ simulados = Empty
    /\ oid = [questionarios |-> NumQuestionarios + 2,
              questoes |-> MaxQuestoes,
              simulados |-> 0]
    /\ ss = SessionNew
    /\ \E f \in ErrosFiles : run = [pc |-> "call", reset_qid |-> NoId, file |-> f]
    /\ bal = BalIdle
    /\ sq = SqIdle
    /\ peer = PeerIdle

NextErros ==
    \/ ImportStart
    \/ ImportRow
    \/ ImportReturn
    \/ LeaveImportar
    \/ RunPraticar
    \/ \E qid \in UserQs : SelectQuestionario(qid)
    \/ \E val \in {"Verdadeiro", "Falso"} : SelectVF(val)
    \/ \E letra \in MCLetras : ClickLetra(letra)
    \/ \E novo_texto \in EditTextos : SalvarEnunciado(novo_texto)
    \/ AtualizarCadernoErros
    \/ CloseSession

\* an import followed by practice, edits and notebook updates
SpecErros == InitErros /\ [][NextErros]_vars

\* the allocation is complete: the loop has exited
AllocExited == bal.pc \in {"sample", "returned"} /\ bal.total_disp > 0

AllocSum == SumOver(bal.alloc, DOMAIN bal.alloc)

\* ceil(a / b) for b > 0
CeilDiv(a, b) == (a + b - 1) \div b

\* every questionnaire of the list holds at least ceil(n / k) questions
SufficientStock ==
    /\ Len(bal.qids) > 0
    /\ bal.n >= 1
    /\ \A q \in Range(bal.qids) : bal.counts[q] >= CeilDiv(bal.n, Len(bal.qids))

\* C1: in every state of the allocation, no questionnaire is allotted more
\* questions than it holds.
C1_alloc_within_stock ==
    \A q \in DOMAIN bal.alloc : bal.alloc[q] <= bal.counts[q]

\* C1 witness: the loop has exited and some questionnaire was clamped: it
\* holds fewer questions than the uniform base share and got all of them.
C1_witness ==
    /\ AllocExited
    /\ \E q \in DOMAIN bal.alloc :
          /\ bal.counts[q] < bal.target \div Len(bal.alive)
          /\ bal.alloc[q] = bal.counts[q]

\* C2: when the allocation loop exits, the allocations sum to
\* min(n, total available).
C2_sum_is_min ==
    AllocExited => AllocSum = Min(bal.n, bal.total_disp)

\* C3: when every one of the k questionnaires holds at least ceil(n/k)
\* questions, any two allocations differ by at most one once the loop exits.
C3_fair_within_one ==
    (AllocExited /\ SufficientStock) =>
        \A p, q \in DOMAIN bal.alloc :
            bal.alloc[p] - bal.alloc[q] <= 1

\* C3 witness: sufficient stock, several questionnaires, a remainder was
\* handed out (two allocations differ by exactly one)
C3_witness ==
    /\ AllocExited
    /\ SufficientStock
    /\ Len(bal.qids) >= 3
    /\ \E p, q \in DOMAIN bal.alloc : bal.alloc[p] = bal.alloc[q] + 1

(***************************************************************************)
(* Exam session claims                                                     *)
(***************************************************************************)
\* sub-answers marked correct
CorrectCount(rs) ==
    Cardinality({j \in DOMAIN rs : rs[j].correto = 1})

\* sub-answers recorded for question id
AnswersFor(rs, id) ==
    Cardinality({j \in DOMAIN rs : rs[j].questao_id = id})

\* C4: every step leaves the ordered pool_ids and the total of every exam
\* that is still stored as they were.
C4_pool_frozen ==
    [][\A s \in DOMAIN simulados :
          s \in DOMAIN simulados' =>
             /\ simulados'[s].pool_ids = simulados[s].pool_ids
             /\ simulados'[s].total = simulados[s].total]_vars

\* C4 witness: two exams are stored; one has been renamed, has a recorded
\* answer and an advanced cursor, one of its questions has been deleted,
\* and a question has been added since the start.
C4_witness ==
    /\ oid.questoes = MaxQuestoes
    /\ \E s, t \in DOMAIN simulados :
          /\ s # t
          /\ simulados[s].nome = "R"
          /\ simulados[s].idx >= 1
          /\ Len(simulados[s].respostas) >= 1
          /\ \E j \in DOMAIN simulados[s].pool_ids :
                simulados[s].pool_ids[j] \notin DOMAIN questoes

\* C7 as stated: the cursor moves only by +1, and only when a missing
\* question is skipped or the current question has a recorded answer.
C7_cursor_needs_answer ==
    [][\A s \in DOMAIN simulados :
          (s \in DOMAIN simulados' /\ simulados'[s].idx # simulados[s].idx) =>
             /\ simulados'[s].idx = simulados[s].idx + 1
             /\ simulados[s].idx < Len(simulados[s].pool_ids)
             /\ LET id == simulados[s].pool_ids[simulados[s].idx + 1]
                IN \/ id \notin DOMAIN questoes
                   \/ AnswersFor(simulados'[s].respostas, id) >= 1]_vars

\* C7 amended: the cursor moves only by +1, and only by the Next button on
\* a displayed question (answered or not) or by the skip of a missing one.
C7_cursor_forward_by_one ==
    [][\A s \in DOMAIN simulados :
          (s \in DOMAIN simulados' /\ simulados'[s].idx # simulados[s].idx) =>
             /\ simulados'[s].idx = simulados[s].idx + 1
             /\ simulados[s].idx < Len(simulados[s].pool_ids)
             /\ s = ss.current_simulado_id
             /\ \/ simulados[s].pool_ids[simulados[s].idx + 1] \notin DOMAIN questoes
                \/ ClickNext]_vars

\* C7 witness: Next has moved the cursor past a question that exists and
\* has no recorded answer (nothing was ever deleted).
C7_witness ==
    /\ UserQs \subseteq DOMAIN questionarios
    /\ \E s \in DOMAIN simulados :
          /\ simulados[s].idx >= 1
          /\ AnswersFor(simulados[s].respostas, simulados[s].pool_ids[1]) = 0

\* C8: every stored exam is finished exactly when its cursor has reached
\* the length of its pool.
C8_finished_iff_end ==
    \A s \in DOMAIN simulados :
        (simulados[s].status = "finished") <=>
            (simulados[s].idx >= Len(simulados[s].pool_ids))

\* C9: whenever no script run is under way, every exam's correct-count
\* covers all of its recorded sub-answers marked correct.
C9_no_partial_answer ==
    run.pc = "idle" =>
        \A s \in DOMAIN simulados :
            simulados[s].acertos >= CorrectCount(simulados[s].respostas)

\* C10: every exam has at most one recorded sub-answer per pool question,
\* its acertos equals the number of sub-answers marked correct, and
\* acertos <= total.
C10_scoring_idempotent ==
    \A s \in DOMAIN simulados :
        /\ \A id \in Range(simulados[s].pool_ids) :
              AnswersFor(simulados[s].respostas, id) <= 1
        /\ simulados[s].acertos = CorrectCount(simulados[s].respostas)
        /\ simulados[s].acertos <= simulados[s].total

\* C10 witness: a resumed session shows the second question of an exam,
\* locked by its persisted answer (the flag is set, the radio untouched);
\* both questions have recorded answers, at least one of them correct.
C10_witness ==
    /\ ShowsQuestion
    /\ LET sim == simulados[ss.current_simulado_id]
       IN /\ sim.idx = 1
          /\ Len(sim.respostas) = 2
          /\ sim.acertos >= 1
          /\ CurrentKey \in DOMAIN ss.result_sim
          /\ CurrentKey \notin DOMAIN ss.radio_sim

(***************************************************************************)
(* Practice claims                                                         *)
(***************************************************************************)
\* C5: the first entry into practice of a questionnaire after its reset
\* starts afresh: cursor 0 and a pool made of exactly the questions the
\* questionnaire has at that moment, each once.
C5_reset_discards_progress ==
    [][\A q \in DOMAIN questionarios :
          (/\ run.reset_qid = q
           /\ q \notin DOMAIN ss.pool
           /\ q \in DOMAIN ss'.pool) =>
             LET ids == {id \in DOMAIN questoes' :
                            questoes'[id].questionario_id = q}
             IN /\ ss'.idx[q] = 0
                /\ Range(ss'.pool[q]) = ids
                /\ Len(ss'.pool[q]) = Cardinality(ids)]_vars

(***************************************************************************)
(* Import claims                                                           *)
(***************************************************************************)
\* C6: the pass over a data row either adds exactly one question (and at
\* most one questionnaire) or leaves questionnaires and questions as they
\* were.
C6_row_atomic ==
    [][(run.pc = "rows" /\ run'.pc = "rows") =>
          \/ /\ Cardinality(DOMAIN questoes') = Cardinality(DOMAIN questoes) + 1
             /\ Cardinality(DOMAIN questionarios')
                   <= Cardinality(DOMAIN questionarios) + 1
          \/ /\ questoes' = questoes
             /\ questionarios' = questionarios]_vars

(***************************************************************************)
(* SQLite exam run claims                                                  *)
(***************************************************************************)
\* C11: the running correct-count of the SQLite exam run never exceeds the
\* number of questions displayed so far (the cursor's question included),
\* hence never the pool's length: a question adds to it at most once,
\* however often the page is rendered while it is displayed.
C11_acertos_once_per_question ==
    sq.simulado_acertos
        <= Min(sq.simulado_idx + 1, Len(sq.simulado_pool))

(***************************************************************************)
(* Missing question in an exam pool                                        *)
(***************************************************************************)
\* the session is on an exam in progress whose question at the cursor no
\* longer exists
MissingAtCursor ==
    /\ ss.mode = "run_simulado"
    /\ ss.current_simulado_id \in DOMAIN simulados
    /\ LET sim == simulados[ss.current_simulado_id]
       IN /\ sim.status # "finished"
          /\ sim.idx < Len(sim.pool_ids)
          /\ sim.pool_ids[sim.idx + 1] \notin DOMAIN questoes

\* C12: when the question at the cursor of the session's exam no longer
\* exists, the page run moves the cursor forward by exactly one, leaves the
\* correct-count, the recorded sub-answers and the pool as they were, and
\* the exam stays open in the session with a rerun requested.
C12_missing_question_skipped ==
    [][(MissingAtCursor /\ simulados' # simulados) =>
          LET sim_id == ss.current_simulado_id
              sim == simulados[sim_id]
          IN /\ sim_id \in DOMAIN simulados'
             /\ simulados'[sim_id].idx = sim.idx + 1
             /\ simulados'[sim_id].acertos = sim.acertos
             /\ simulados'[sim_id].respostas = sim.respostas
             /\ simulados'[sim_id].pool_ids = sim.pool_ids
             /\ ss'.current_simulado_id = sim_id
             /\ ss'.mode = "run_simulado"
             /\ ss'.rerun]_vars

\* C12 witness: the skip has acted on the last pool entry: the cursor is at
\* the end of the pool of an exam still in progress (Next would have
\* finished it), the entry before the cursor is a question that no longer
\* exists, and the rerun is pending.
C12_witness ==
    /\ ss.mode = "run_simulado"
    /\ ss.rerun
    /\ ss.current_simulado_id \in DOMAIN simulados
    /\ LET sim == simulados[ss.current_simulado_id]
       IN /\ sim.idx = Len(sim.pool_ids)
          /\ sim.status = "in_progress"
          /\ sim.pool_ids[sim.idx] \notin DOMAIN questoes

(***************************************************************************)
(* Practice pool claims                                                    *)
(***************************************************************************)
\* the step loads the pool of questionnaire q into the session
LoadsPool(q) ==
    /\ q \in DOMAIN questionarios
    /\ q \notin DOMAIN ss.pool
    /\ q \in DOMAIN ss'.pool

\* the saved pool of q without the ids of questions that no longer exist
SavedAlive(q) ==
    SelectSeq(questionarios[q].progress_pool, LAMBDA x : x \in DOMAIN questoes)

\* the saved cursor of q clamped into the pool p
SavedCursorIn(q, p) == Min(Max(questionarios[q].progress_idx, 0), Len(p) - 1)

\* C13 (as stated): whenever a session loads the pool of a questionnaire
\* that has a saved pool, the session pool is the saved pool without the
\* ids of questions that no longer exist, in the saved order, and the
\* cursor is the saved cursor clamped into [0, len(pool)-1].
C13_resume_filters_saved_pool ==
    [][\A q \in DOMAIN questionarios :
          (LoadsPool(q) /\ questionarios[q].progress_pool # <<>>) =>
             /\ ss'.pool[q] = SavedAlive(q)
             /\ ss'.pool[q] # <<>> =>
                   ss'.idx[q] = SavedCursorIn(q, ss'.pool[q])]_vars

\* C13 (amended): the same, provided at least one question of the saved
\* pool still exists; when none does, the load is a first entry: the pool
\* is an arrangement of all current questions of the questionnaire and the
\* cursor is 0.
C13_resume_or_fresh ==
    [][\A q \in DOMAIN questionarios :
          (LoadsPool(q) /\ questionarios[q].progress_pool # <<>>) =>
             IF SavedAlive(q) # <<>>
             THEN /\ ss'.pool[q] = SavedAlive(q)
                  /\ ss'.idx[q] = SavedCursorIn(q, ss'.pool[q])
                  /\ ss'.idx[q] \in 0..(Len(ss'.pool[q]) - 1)
             ELSE /\ ss'.pool[q] \in Shuffles(q)
                  /\ ss'.idx[q] = 0]_vars

\* C13 witness: questionnaire 1 was practised with questions 1 and 2 in its
\* pool (question 2 was answered there), question 2 was then removed, and
\* the session now holds the resumed pool: question 1 alone, as persisted.
C13_witness ==
    /\ 1 \in DOMAIN ss.pool
    /\ ss.pool[1] = <<1>>
    /\ 1 \in DOMAIN questionarios
    /\ questionarios[1].progress_pool = <<1>>
    /\ 2 \notin DOMAIN questoes
    /\ \E j \in DOMAIN respostas :
          respostas[j].questao_id = 2 /\ respostas[j].questionario_id = 1

\* C14 (range): in every state, the cursor of every non-empty pool of the
\* session is an index of that pool.
C14_cursor_in_range ==
    \A q \in DOMAIN ss.pool :
        ss.pool[q] # <<>> => ss.idx[q] \in 0..(Len(ss.pool[q]) - 1)

\* C14 (navigation): a step that moves the cursor of a pool the session
\* holds (Previous, Next) moves it by exactly one position, keeps it inside
\* the pool and leaves the pool's contents and order as they were.
C14_navigation_by_one ==
    [][\A q \in DOMAIN ss.pool \cap DOMAIN ss'.pool :
          ss'.idx[q] # ss.idx[q] =>
             /\ ss'.idx[q] \in {ss.idx[q] - 1, ss.idx[q] + 1}
             /\ ss'.idx[q] \in 0..(Len(ss.pool[q]) - 1)
             /\ ss'.pool[q] = ss.pool[q]]_vars

\* C14: practice navigation moves the cursor by one inside the pool and
\* never changes the pool (both parts above, as one property).
C14_navigation == []C14_cursor_in_range /\ C14_navigation_by_one

\* C14 witness: Next has taken the cursor of a pool of two or more questions
\* to its last index, where the session now stands.
C14_witness ==
    /\ ss.current_qid \in DOMAIN ss.pool
    /\ Len(ss.pool[ss.current_qid]) >= 2
    /\ ss.idx[ss.current_qid] = Len(ss.pool[ss.current_qid]) - 1
    /\ ss.current_qid \in DOMAIN questionarios
    /\ questionarios[ss.current_qid].progress_idx = ss.idx[ss.current_qid]

\* C15: in every state, for every questionnaire of the store whose pool the
\* session holds (from the first entry into its practice on), the pool and
\* the cursor saved on the questionnaire equal the session's pool and
\* cursor.
C15_progress_persisted ==
    \A q \in DOMAIN ss.pool \cap DOMAIN questionarios :
        /\ questionarios[q].progress_pool = ss.pool[q]
        /\ questionarios[q].progress_idx = ss.idx[q]

\* C15 witness: Previous has brought the cursor back to the first question
\* of a pool whose second question was shown and answered before; the rerun
\* it asked for is pending and the saved cursor is 0 as well.
C15_witness ==
    /\ ss.rerun
    /\ ss.current_qid \in DOMAIN ss.pool \cap DOMAIN questionarios
    /\ Len(ss.pool[ss.current_qid]) >= 2
    /\ ss.idx[ss.current_qid] = 0
    /\ questionarios[ss.current_qid].progress_idx = 0
    /\ \E j \in DOMAIN respostas :
          /\ respostas[j].questionario_id = ss.current_qid
          /\ respostas[j].questao_id = ss.pool[ss.current_qid][2]

\* C16: in every state, no pool of the session holds a question id twice,
\* and every id in a pool is an id the store has handed out to a question
\* of that pool's questionnaire (each question stays in the questionnaire
\* it was created in, so it belonged to it when the pool was built).
C16_pool_ids ==
    \A q \in DOMAIN ss.pool :
        LET p == ss.pool[q]
        IN /\ \A i, j \in DOMAIN p : i # j => p[i] # p[j]
           /\ \A i \in DOMAIN p :
                 /\ p[i] \in 1..oid.questoes
                 /\ p[i] \in DOMAIN questoes =>
                       questoes[p[i]].questionario_id = q

\* C16 (as a whole): the above in every state, and every step that loads a
\* pool into the session builds it from ids that are questions of that
\* questionnaire in the store at that moment.
C16_pool_without_repetition ==
    /\ []C16_pool_ids
    /\ [][\A q \in DOMAIN questionarios :
             LoadsPool(q) =>
                \A i \in DOMAIN ss'.pool[q] :
                   /\ ss'.pool[q][i] \in DOMAIN questoes
                   /\ questoes[ss'.pool[q][i]].questionario_id = q]_vars

\* C16 witness: the session holds a shuffled pool of two live questions of
\* its questionnaire, in an order other than that of their ids.
C16_witness ==
    /\ ss.current_qid \in DOMAIN ss.pool
    /\ LET p == ss.pool[ss.current_qid]
       IN /\ Len(p) = 2
          /\ p[1] > p[2]
          /\ \A i \in DOMAIN p :
                /\ p[i] \in DOMAIN questoes
                /\ questoes[p[i]].questionario_id = ss.current_qid

(***************************************************************************)
(* Concurrent practice sessions                                            *)
(***************************************************************************)
\* C17: a step of the session whose turn it is (a load, a navigation) never
\* changes the saved pool or the saved cursor of a questionnaire whose pool
\* the other session holds: the other session would resume, after a
\* restart, from what it saved itself.
C17_sessions_independent ==
    [][peer' = peer =>
          \A q \in DOMAIN peer.ss.pool \cap DOMAIN questionarios :
              /\ questionarios'[q].progress_pool = questionarios[q].progress_pool
              /\ questionarios'[q].progress_idx = questionarios[q].progress_idx]_vars

(***************************************************************************)
(* Performance claims                                                      *)
(***************************************************************************)
\* reading t1 is earlier than reading t2
Earlier(t1, t2) == t1[1] < t2[1] \/ (t1[1] = t2[1] /\ t1[2] < t2[2])

\* the reading an event was stamped with (the inverse of Iso on Clock)
ReadingOf(r) == CHOOSE t \in Clock : Iso(t) = r.respondido_em

\* the index, in insertion order, of the event of question x that decides:
\* the one with the greatest timestamp, the later inserted among equals
Decisive(rs, x) ==
    CHOOSE i \in DOMAIN rs :
        /\ rs[i].questao_id = x
        /\ \A j \in DOMAIN rs \ {i} :
              rs[j].questao_id = x =>
                 \/ Earlier(ReadingOf(rs[j]), ReadingOf(rs[i]))
                 \/ (ReadingOf(rs[j]) = ReadingOf(rs[i]) /\ j < i)

\* C18: whenever the performance of a questionnaire is shown, every
\* question with answer events counts as correct exactly when its event
\* with the greatest timestamp is correct, whatever the order of insertion,
\* the later-inserted event deciding among equal timestamps; acertos is the
\* number of questions so counted.
C18_latest_answer_wins ==
    run.pc = "desempenho" =>
       LET rs == SelectSeq(respostas, LAMBDA r : r.questionario_id = run.qid)
           answered == {rs[i].questao_id : i \in DOMAIN rs}
       IN /\ DOMAIN run.ret.last_map = answered
          /\ \A x \in answered :
                run.ret.last_map[x] = (rs[Decisive(rs, x)].correto = 1)
          /\ run.ret.acertos =
                Cardinality({x \in answered : rs[Decisive(rs, x)].correto = 1})

\* C18 witness: the performance shown counts a question as correct whose
\* correct answer carries the greatest timestamp but was inserted before a
\* wrong answer with an earlier timestamp.
C18_witness ==
    /\ run.pc = "desempenho"
    /\ Len(respostas) >= 2
    /\ respostas[1].questionario_id = run.qid
    /\ respostas[2].questionario_id = run.qid
    /\ respostas[1].questao_id = respostas[2].questao_id
    /\ respostas[1].correto = 1
    /\ respostas[2].correto = 0
    /\ Earlier(ReadingOf(respostas[2]), ReadingOf(respostas[1]))
    /\ \A j \in DOMAIN respostas :
          j > 2 => respostas[j].questao_id # respostas[1].questao_id
    /\ run.ret.last_map[respostas[1].questao_id]
    /\ run.ret.acertos >= 1

\* the questions the questionnaire q owns in the store
QuestoesDe(q) == {id \in DOMAIN questoes : questoes[id].questionario_id = q}

\* the answer events of the questionnaire q
EventosDe(q) == SelectSeq(respostas, LAMBDA r : r.questionario_id = q)

\* C19 (state): in every state the total of desempenho_questionario is the
\* number of questions the questionnaire owns.
C19_total_is_question_count ==
    \A q \in DOMAIN questionarios :
        desempenho_questionario(q).total = Cardinality(QuestoesDe(q))

\* C19: the above in every state, and no step that records, re-records or
\* resets answers of a questionnaire changes that questionnaire's total.
C19_total_independent_of_answers ==
    /\ []C19_total_is_question_count
    /\ [][\A q \in DOMAIN questionarios \cap DOMAIN questionarios' :
             EventosDe(q)' # EventosDe(q) =>
                desempenho_questionario(q)'.total
                   = desempenho_questionario(q).total]_vars

\* C19 witness: a questionnaire holds two answer events for one question
\* (it was answered and answered again) and its total is the number of its
\* questions, here less than the number of its events.
C19_witness ==
    \E q \in DOMAIN questionarios :
        /\ Len(EventosDe(q)) = 2
        /\ EventosDe(q)[1].questao_id = EventosDe(q)[2].questao_id
        /\ Cardinality(QuestoesDe(q)) = 1
        /\ desempenho_questionario(q).total = 1

(***************************************************************************)
(* SQLite performance claims                                               *)
(***************************************************************************)
\* the questions of the rows rs whose last row is a correct answer
SqLatestCorrect(rs) ==
    {x \in {rs[i].questao_id : i \in DOMAIN rs} :
        rs[MaxOf({i \in DOMAIN rs : rs[i].questao_id = x})].correto = 1}

\* C20: in the SQLite implementation, a step that records an answer to a
\* question that already has one leaves the reported total as it was, and
\* the reported correct-count is the number of questions whose latest
\* answer is correct.
C20_sqlite_latest_answer ==
    [][\A x \in SqQuestoes :
          (/\ Len(sq'.respostas) = Len(sq.respostas) + 1
           /\ sq'.respostas[Len(sq'.respostas)].questao_id = x
           /\ \E i \in DOMAIN sq.respostas : sq.respostas[i].questao_id = x) =>
             /\ SqDesempenho(sq'.respostas, SqQid).total
                   = SqDesempenho(sq.respostas, SqQid).total
             /\ SqDesempenho(sq'.respostas, SqQid).acertos
                   = Cardinality(SqLatestCorrect(sq'.respostas))]_vars

(***************************************************************************)
(* Answer events and cascade claims                                        *)
(***************************************************************************)
\* the answer events without those of the questionnaire q
EventosSem(q) == SelectSeq(respostas, LAMBDA r : r.questionario_id # q)

\* the step adds one event at the end and touches no other
AppendsOne ==
    /\ Len(respostas') = Len(respostas) + 1
    /\ SubSeq(respostas', 1, Len(respostas)) = respostas

\* the step is delete_questionario(q)
DeletesQuestionario(q) ==
    q \in DOMAIN questionarios /\ q \notin DOMAIN questionarios'

\* the step is resetar_resolucoes(q)
ResetsQuestionario(q) == run.reset_qid # q /\ run'.reset_qid = q

\* the step removes events, and only through a delete or a reset of one
\* questionnaire, whose events are exactly the ones removed
RemovesByDeleteOrReset ==
    \E q \in DOMAIN questionarios :
        /\ respostas' = EventosSem(q)
        /\ DeletesQuestionario(q) \/ ResetsQuestionario(q)

\* C21 (as stated): every step leaves the answer events as they are, adds
\* exactly one at the end, or is a delete or reset of one questionnaire
\* that removes exactly that questionnaire's events; a step that removes
\* events leaves all questions unchanged.
C21_events_append_only_questions_kept ==
    [][/\ \/ respostas' = respostas
          \/ AppendsOne
          \/ RemovesByDeleteOrReset
       /\ Len(respostas') < Len(respostas) => questoes' = questoes]_vars

\* C21 (amended): the same, and a delete of a questionnaire always removes
\* exactly its events; the questions are all left unchanged by a reset,
\* while a delete removes the questions of the deleted questionnaire and no
\* other.
C21_events_append_only ==
    [][/\ \/ respostas' = respostas
          \/ AppendsOne
          \/ RemovesByDeleteOrReset
       /\ \A q \in DOMAIN questionarios :
             /\ DeletesQuestionario(q) =>
                   /\ respostas' = EventosSem(q)
                   /\ questoes' = Drop(questoes, QuestoesDe(q))
             /\ ResetsQuestionario(q) =>
                   /\ respostas' = EventosSem(q)
                   /\ questoes' = questoes]_vars

\* C21 witness: a reset has removed the events of a questionnaire (the
\* letter pressed for one of its questions is still in the session, its
\* event is gone) while an event of another questionnaire is still stored.
C21_witness ==
    /\ run.reset_qid \in DOMAIN questionarios
    /\ ss.rerun
    /\ \E x \in DOMAIN ss.answer_letter \cap DOMAIN questoes :
          /\ questoes[x].questionario_id = run.reset_qid
          /\ \A j \in DOMAIN respostas : respostas[j].questao_id # x
    /\ \E j \in DOMAIN respostas :
          respostas[j].questionario_id # run.reset_qid

\* C22 (state): every question and every answer event refers to a
\* questionnaire that exists.
C22_no_orphans ==
    /\ \A id \in DOMAIN questoes :
          questoes[id].questionario_id \in DOMAIN questionarios
    /\ \A j \in DOMAIN respostas :
          respostas[j].questionario_id \in DOMAIN questionarios

\* C22: the above in every state, and a step that deletes a questionnaire
\* removes it with exactly its questions and its answer events, leaving
\* every other questionnaire, question and answer event as it was.
C22_cascade_delete ==
    /\ []C22_no_orphans
    /\ [][\A q \in DOMAIN questionarios :
             DeletesQuestionario(q) =>
                /\ questionarios' = Drop(questionarios, {q})
                /\ questoes' = Drop(questoes, QuestoesDe(q))
                /\ respostas' = EventosSem(q)]_vars

\* C22 witness: a questionnaire that was practised (the session still holds
\* its pool, with a question in it) has been deleted, and an answer event of
\* another questionnaire is still stored.
C22_witness ==
    /\ \E q \in DOMAIN ss.pool :
          /\ q \notin DOMAIN questionarios
          /\ ss.pool[q] # <<>>
    /\ respostas # <<>>

\* C23: no question owned by 'Favoritos' or by 'Caderno de Erros' is in the
\* pool of a created exam
C23_reserved_excluded_from_exams ==
    \A s \in DOMAIN simulados :
       \A i \in DOMAIN simulados[s].pool_ids :
          LET id == simulados[s].pool_ids[i]
          IN id \in DOMAIN questoes =>
                questionarios[questoes[id].questionario_id].nome
                   \notin {"Favoritos", "Caderno de Erros"}

\* C24: 'Favoritos' and 'Caderno de Erros' exist in every state, and a step
\* that removes a questionnaire removes one with another name
C24_reserved_exist ==
    /\ \E f \in DOMAIN questionarios : questionarios[f].nome = "Favoritos"
    /\ \E e \in DOMAIN questionarios : questionarios[e].nome = "Caderno de Erros"

C24_reserved_never_deleted ==
    []C24_reserved_exist
    /\ [][\A q \in DOMAIN questionarios :
             DeletesQuestionario(q) =>
                questionarios[q].nome \notin {"Favoritos", "Caderno de Erros"}]_vars

\* every questionnaire of the user has been deleted from the dashboard
C24_witness ==
    /\ UserQs \cap DOMAIN questionarios = {}
    /\ Cardinality(DOMAIN questionarios) = 2

\* C25: for every selection the page allows and every requested number, also
\* above what is available, get_random_questoes returns a pool (it does not
\* fail), and each pool it can return has exactly min(n, available) ids, all
\* distinct and all owned by a selected questionnaire; an exam created in
\* direct mode holds such a pool
PoolOwnedBy(pool_ids, qids) ==
    \A i \in DOMAIN pool_ids :
       /\ pool_ids[i] \in DOMAIN questoes
       /\ questoes[pool_ids[i]].questionario_id \in qids
       /\ \A j \in DOMAIN pool_ids : pool_ids[i] = pool_ids[j] => i = j

C25_sample_clamped ==
    \A qids \in SUBSET Selectable : \A m \in 1..(MaxQuestoes + 1) :
       /\ get_random_questoes(qids, m) # {}
       /\ \A pool_ids \in get_random_questoes(qids, m) :
             /\ Len(pool_ids) = Min(m, TotalDisp(qids))
             /\ PoolOwnedBy(pool_ids, qids)

C26_erros_in_row_order(erros, upto) ==
    /\ \A k \in DOMAIN erros : erros[k].linha \in 2..upto
    /\ \A k, l \in DOMAIN erros : k < l => erros[k].linha < erros[l].linha

C26_row_isolation ==
    /\ run.pc = "raised" => run.at = "header"
    /\ run.pc = "rows" =>
          /\ run.ok + Len(run.erros) = run.i - 2
          /\ C26_erros_in_row_order(run.erros, run.i - 1)
    /\ run.pc = "imported" =>
          /\ run.ok + Len(run.erros) = run.linhas
          /\ C26_erros_in_row_order(run.erros, run.linhas + 1)

\* C27: a call raises exactly when a required column is missing from the
\* header, it raises then before any row is processed, and whenever the call
\* has raised the store is as it was before the call
C27_store_as_before_the_call ==
    /\ questoes = [id \in 1..1 |-> QuestaoDoc(id)]
    /\ DOMAIN questionarios = 1..(NumQuestionarios + 2)
    /\ oid.questoes = 1 /\ oid.questionarios = NumQuestionarios + 2

C27_raised_only_for_header ==
    run.pc = "raised" => run.at = "header" /\ C27_store_as_before_the_call

C27_missing_columns_abort ==
    []C27_raised_only_for_header
    /\ [][run.pc = "call" =>
            (run'.pc = "raised" <=> ~(RequiredColumns \subseteq run.file.fieldnames))]_vars

\* C28: in every state no two questionnaires share a name; a row processed
\* by the import leaves every existing questionnaire as it is, reuses the
\* questionnaire of the row's name (stripped, compared exactly) when there
\* is one and creates exactly one when there is none and the row reaches
\* ensure_questionario, and the question of the row goes to it
RowNome(row) ==
    IF Strip(row.questionario) = "" THEN "Sem Título" ELSE Strip(row.questionario)

ComNome(qs, nome) == {id \in DOMAIN qs : qs[id].nome = nome}

RowReachesEnsure(row) ==
    /\ ~ReaderRaises(row)
    /\ Missing \notin {row.questionario, row.texto, row.correta}
    /\ Strip(row.texto) # ""

C28_names_unique ==
    \A a, b \in DOMAIN questionarios :
       questionarios[a].nome = questionarios[b].nome => a = b

C28_name_idempotence ==
    []C28_names_unique
    /\ [][run.pc = "rows" /\ run'.pc = "rows" /\ run'.i = run.i + 1 =>
            LET row == run.rows[run.i - 1]
                nome == RowNome(row)
                antes == ComNome(questionarios, nome)
                depois == ComNome(questionarios', nome)
            IN /\ \A id \in DOMAIN questionarios :
                     id \in DOMAIN questionarios'
                        /\ questionarios'[id] = questionarios[id]
               /\ antes # {} => questionarios' = questionarios
               /\ RowReachesEnsure(row) =>
                     /\ Cardinality(depois) = 1
                     /\ Cardinality(DOMAIN questionarios') =
                           Cardinality(DOMAIN questionarios)
                              + (IF antes = {} THEN 1 ELSE 0)
               /\ ~RowReachesEnsure(row) => questionarios' = questionarios
               /\ \A id \in DOMAIN questoes' \ DOMAIN questoes :
                     questoes'[id].questionario_id \in depois]_vars

\* two rows naming the same new questionnaire (one with blanks around the
\* name) were imported: one questionnaire, both questions in it
C28_witness ==
    /\ run.pc = "imported" /\ run.ok = 2
    /\ \E q \in DOMAIN questionarios :
          /\ questionarios[q].nome = "N1"
          /\ q > NumQuestionarios + 2
          /\ Cardinality({id \in DOMAIN questoes :
                             questoes[id].questionario_id = q}) = 2

\* C29: every multiple-choice question in the store has two to five options,
\* none empty, and a key that is the letter of one of them; an MC row
\* processed by the import is persisted with the letter its key names, or
\* else with the letter of the first option whose text equals the key up to
\* case, and a row whose key does neither (or with fewer than two options)
\* is rejected with one error and nothing persisted
C29_mc_well_formed ==
    \A id \in DOMAIN questoes :
       questoes[id].tipo = "MC" =>
          /\ Len(questoes[id].ops) \in 2..5
          /\ \A j \in DOMAIN questoes[id].ops : Strip(questoes[id].ops[j]) # ""
          /\ \E j \in DOMAIN questoes[id].ops : questoes[id].correta_text = Letras[j]

C29_mc_rows ==
    []C29_mc_well_formed
    /\ [][run.pc = "rows" /\ run'.pc = "rows" /\ run'.i = run.i + 1
             /\ RowReachesEnsure(run.rows[run.i - 1])
             /\ Upper(Strip(run.rows[run.i - 1].tipo)) = "MC" =>
            LET row == run.rows[run.i - 1]
                present == SelectSeq(row.alternativas, LAMBDA x : Strip(x) # "")
                opts == SubSeq(present, 1, Min(5, Len(present)))
                key == Strip(row.correta)
                direct == {j \in DOMAIN opts : Letras[j] = Upper(key)}
                bytext == {j \in DOMAIN opts : Lower(Strip(opts[j])) = Lower(key)}
                novas == DOMAIN questoes' \ DOMAIN questoes
            IN IF Len(opts) < 2 \/ (direct = {} /\ bytext = {})
               THEN /\ questoes' = questoes
                    /\ Len(run'.erros) = Len(run.erros) + 1
                    /\ run'.ok = run.ok
               ELSE /\ Cardinality(novas) = 1
                    /\ run'.ok = run.ok + 1
                    /\ \A id \in novas :
                          /\ questoes'[id].tipo = "MC"
                          /\ questoes'[id].ops = opts
                          /\ questoes'[id].correta_text =
                                Letras[CHOOSE j \in (IF direct # {} THEN direct ELSE bytext) :
                                          \A k \in (IF direct # {} THEN direct ELSE bytext) : j <= k]]_vars

\* one question imported with its key given as the text of an option, and
\* one imported from a row of six options
C29_witness ==
    /\ run.pc = "imported"
    /\ \E id \in DOMAIN questoes :
          /\ questoes[id].tipo = "MC" /\ questoes[id].texto = "T7"
          /\ questoes[id].correta_text = "B"
    /\ \E id \in DOMAIN questoes :
          /\ questoes[id].tipo = "MC" /\ Len(questoes[id].ops) = 5
          /\ questoes[id].correta_text = "E"

\* C30: a step that adds to the answer events adds exactly one, for a
\* question the user submitted an answer to in that step (the radio of a
\* true/false question changed, or the letter of a multiple-choice question
\* was set), with the practised questionnaire, the question and the
\* evaluated correctness; every other step (a re-render, Previous, Next)
\* adds none
SubmittedNow(q) ==
    \/ /\ q \in DOMAIN ss'.vf
       /\ q \notin DOMAIN ss.vf \/ ss.vf[q] # ss'.vf[q]
    \/ /\ q \in DOMAIN ss'.answer_letter
       /\ q \notin DOMAIN ss.answer_letter

ChoiceOf(s, q) ==
    IF questoes[q].tipo = "VF" THEN s.vf[q] ELSE s.answer_letter[q]

C30_one_event_per_submission ==
    [][Len(respostas') > Len(respostas) =>
         /\ AppendsOne
         /\ LET ev == respostas'[Len(respostas')]
            IN /\ ev.questionario_id = ss'.current_qid
               /\ ev.questao_id \in DOMAIN questoes
               /\ SubmittedNow(ev.questao_id)
               /\ ev.correto = (IF IsCorrectPratica(questoes[ev.questao_id],
                                                    ChoiceOf(ss', ev.questao_id))
                                THEN 1 ELSE 0)]_vars

\* C31: a true/false submission is correct iff the submitted boolean equals
\* the key (key "V" is true), a multiple-choice submission iff the submitted
\* letter is the key letter; the practice page and the exam page evaluate
\* every submission to every question so, what they record is that value,
\* and recording leaves the question as it was
Comparison(q, submitted) ==
    IF q.tipo = "VF"
    THEN (submitted = "Verdadeiro") = (q.correta_text = "V")
    ELSE submitted = q.correta_text

Bit(b) == IF b THEN 1 ELSE 0

C31_evaluators_agree ==
    \A id \in DOMAIN questoes :
       \A sel \in Escolhas(questoes[id]) :
          /\ IsCorrect(questoes[id], sel)
                = Comparison(questoes[id], RespostaRaw(questoes[id], sel))
          /\ IsCorrectPratica(questoes[id], RespostaRaw(questoes[id], sel))
                = Comparison(questoes[id], RespostaRaw(questoes[id], sel))

C31_evaluation_pure ==
    []C31_evaluators_agree
    /\ [][/\ Len(respostas') > Len(respostas) =>
               LET ev == respostas'[Len(respostas')]
               IN /\ ev.questao_id \in DOMAIN questoes
                  /\ ev.correto = Bit(Comparison(questoes[ev.questao_id],
                                                 ChoiceOf(ss', ev.questao_id)))
                  /\ ev.questao_id \in DOMAIN questoes'
                  /\ questoes'[ev.questao_id] = questoes[ev.questao_id]
          /\ \A s \in DOMAIN simulados \cap DOMAIN simulados' :
               Len(simulados'[s].respostas) > Len(simulados[s].respostas) =>
                  LET r == simulados'[s].respostas[Len(simulados'[s].respostas)]
                  IN /\ r.questao_id \in DOMAIN questoes
                     /\ r.correto = Bit(Comparison(questoes[r.questao_id], r.resposta))
                     /\ simulados'[s].acertos = simulados[s].acertos + r.correto
                     /\ questoes' = questoes]_vars

\* the same multiple-choice question answered in practice and in the exam,
\* right in one and wrong in the other
C31_witness ==
    \E j \in DOMAIN respostas : \E s \in DOMAIN simulados :
       \E k \in DOMAIN simulados[s].respostas :
          /\ simulados[s].respostas[k].questao_id = respostas[j].questao_id
          /\ respostas[j].questao_id \in DOMAIN questoes
          /\ questoes[respostas[j].questao_id].tipo = "MC"
          /\ simulados[s].respostas[k].correto # respostas[j].correto

\* C33: the remainder loop is left only by its condition, with nothing
\* remaining to hand out, and never by the break of the iteration cap
C33_loop_exits_by_remaining ==
    [][bal.pc = "loop" /\ bal'.pc # "loop" =>
          /\ bal.remaining = 0
          /\ bal'.remaining = 0
          /\ bal'.i <= IterCap]_vars

\* C32: the part of the pool a selected subject contributes, the list the
\* balanced allocation returns for the subject's questionnaires and its
\* requested number, has min(requested, available in the subject) entries
\* (the pool is the concatenation of these parts, so its length is their sum)
C32_subject_part_length ==
    bal.pc = "returned" =>
       bal.ret_len = (IF bal.n <= 0 THEN 0
                      ELSE Min(bal.n, SumOver(bal.counts, DOMAIN bal.counts)))

C35_progress_monotone ==
    [][\A s \in DOMAIN simulados \cap DOMAIN simulados' :
          /\ simulados'[s].idx >= simulados[s].idx
          /\ simulados'[s].acertos >= simulados[s].acertos
          /\ Len(simulados'[s].respostas) >= Len(simulados[s].respostas)
          /\ SubSeq(simulados'[s].respostas, 1, Len(simulados[s].respostas))
                = simulados[s].respostas
          /\ simulados[s].status = "finished" =>
                /\ simulados'[s].status = "finished"
                /\ simulados'[s].idx = simulados[s].idx
                /\ simulados'[s].acertos = simulados[s].acertos
                /\ simulados'[s].respostas = simulados[s].respostas]_vars

\* the final page of a finished exam of MaxQuestoes questions, all answered,
\* drawn in a session that holds no answer flag
C35_witness ==
    /\ ss.mode = "run_simulado" /\ ~ss.rerun /\ ss.result_sim = Empty
    /\ ss.current_simulado_id \in DOMAIN simulados
    /\ LET sim == simulados[ss.current_simulado_id]
       IN /\ sim.status = "finished"
          /\ sim.idx = MaxQuestoes
          /\ Len(sim.respostas) = MaxQuestoes
          /\ sim.acertos >= 1

\* C36: an exam that is in progress, with a non-empty pool, is eventually
\* finished when the user keeps pressing Next and the pending runs of the
\* page happen, whatever questions of its pool are deleted meanwhile
C36_exam_eventually_finished ==
    \A s \in 1..MaxSimulados :
       (/\ s \in DOMAIN simulados
        /\ simulados[s].status = "in_progress"
        /\ simulados[s].pool_ids # <<>>)
          ~> (s \in DOMAIN simulados /\ simulados[s].status = "finished")

\* an exam finished without a single answer: every question of its pool had
\* been deleted and was skipped
C36_witness ==
    \E s \in DOMAIN simulados :
       /\ simulados[s].status = "finished"
       /\ Len(simulados[s].pool_ids) = MaxQuestoes
       /\ simulados[s].idx = MaxQuestoes
       /\ simulados[s].respostas = <<>>
       /\ \A i \in DOMAIN simulados[s].pool_ids :
             simulados[s].pool_ids[i] \notin DOMAIN questoes

\* C37: for every questionnaire the questions whose latest answer is correct
\* are at most the distinct questions answered, which are at most the
\* questions it owns; the percentage lies in 0..100 and is 0 when the
\* questionnaire owns no question
C37_performance_bounds ==
    \A q \in DOMAIN questionarios :
       LET d == desempenho_questionario(q)
           respondidas == respondidas_questionario(q)
       IN /\ 0 <= d.acertos
          /\ d.acertos <= respondidas
          /\ respondidas <= d.total
          /\ PercInt(d.total, d.acertos) \in 0..100
          /\ d.total = 0 => PercInt(d.total, d.acertos) = 0

\* a questionnaire with two questions, both answered, one of them correctly
C37_witness ==
    \E q \in DOMAIN questionarios :
       /\ desempenho_questionario(q).total = 2
       /\ respondidas_questionario(q) = 2
       /\ desempenho_questionario(q).acertos = 1
       /\ PercInt(2, desempenho_questionario(q).acertos) = 50

(***************************************************************************)
(* Dashboard statistics claims                                             *)
(***************************************************************************)
\* C38: whenever the dashboard has drawn its statistics, for every
\* questionnaire drawn _bulk_stats reports the total of
\* desempenho_questionario, the responded count of respondidas_questionario
\* and the correct count (acertos) of desempenho_questionario, whatever the
\* answer events in the store, events with equal timestamps included.
C38_bulk_agrees ==
    run.pc = "painel" =>
       \A qid \in DOMAIN run.stats :
          /\ run.stats[qid].total = desempenho_questionario(qid).total
          /\ run.stats[qid].respondidas = respondidas_questionario(qid)
          /\ run.stats[qid].corretas = desempenho_questionario(qid).acertos

\* C38, the part that holds: the totals and the responded counts always
\* agree, and the correct counts agree for every questionnaire none of whose
\* questions has two answer events with the same timestamp.
C38_bulk_agrees_without_ties ==
    run.pc = "painel" =>
       \A qid \in DOMAIN run.stats :
          /\ run.stats[qid].total = desempenho_questionario(qid).total
          /\ run.stats[qid].respondidas = respondidas_questionario(qid)
          /\ (\A i, j \in DOMAIN respostas :
                 (/\ i # j
                  /\ respostas[i].questionario_id = qid
                  /\ respostas[j].questionario_id = qid
                  /\ respostas[i].questao_id = respostas[j].questao_id)
                 => RespondidoEm(respostas[i]) # RespondidoEm(respostas[j]))
             => run.stats[qid].corretas = desempenho_questionario(qid).acertos

\* C38 case: the dashboard has drawn a questionnaire one of whose questions
\* has a correct and a wrong answer event with the same timestamp.
C38_tied_events_drawn ==
    /\ run.pc = "painel"
    /\ \E qid \in DOMAIN run.stats :
          \E i, j \in DOMAIN respostas :
             /\ respostas[i].questionario_id = qid
             /\ respostas[j].questionario_id = qid
             /\ respostas[i].questao_id = respostas[j].questao_id
             /\ respostas[i].correto # respostas[j].correto
             /\ RespondidoEm(respostas[i]) = RespondidoEm(respostas[j])

(***************************************************************************)
(* Caderno de Erros claims                                                 *)
(***************************************************************************)
\* the questions the Caderno de Erros owns
ErrosQuestoes ==
    {x \in DOMAIN questoes :
        /\ questoes[x].questionario_id \in DOMAIN questionarios
        /\ questionarios[questoes[x].questionario_id].nome = "Caderno de Erros"}

\* C39: in every reachable state no two questions owned by the Caderno de
\* Erros have the same prompt text.
C39_erros_textos_unique ==
    \A x, y \in ErrosQuestoes : x # y => questoes[x].texto # questoes[y].texto

\* C39, the part that holds: a step that is not the import of a row leaves
\* the texts of the notebook distinct if they were: wrong answers, text
\* edits on the practice page and popular_caderno_erros keep the property.
C39_only_import_breaks ==
    [][(run.pc # "rows" /\ C39_erros_textos_unique)
          => C39_erros_textos_unique']_vars

\* C39 case: the notebook holds two questions, one copied in by a wrong
\* answer or by popular_caderno_erros, with different texts.
C39_erros_has_two ==
    /\ run.pc = "idle"
    /\ respostas # <<>>
    /\ Cardinality(ErrosQuestoes) >= 2
    /\ C39_erros_textos_unique

====
